---- MODULE Spec2Model ----
(***************************************************************************)
(* ComplianceGuard AI: the compliance orchestrator (agents/orchestrator.py) *)
(* and the compliance memory bank (memory/memory_bank.py).                  *)
(*                                                                          *)
(* Time is the wall clock read by datetime.now(): a pair of a second count  *)
(* and a microsecond count.  One handler step reads the clock once.         *)
(***************************************************************************)
EXTENDS FiniteSets, Integers, Sequences, TLC

----------------------------------------------------------------------------
(* Bounds of the model *)

\* calls made directly on the memory bank after Init
MaxOps == 2

\* execute_compliance_check calls made on the orchestrator
MaxRuns == 2

\* calls made on the session manager, reaper cycles and waits included
MaxSessionOps == 4

\* create_session calls made on the session manager
MaxSessions == 2

\* process calls made on the agents of the orchestrator
MaxRequests == 1

\* start_continuous_monitoring calls made on the orchestrator
MaxStarts == 2

\* the max_sessions of a session manager constructed with a small one
SmallMaxSessions == 1

----------------------------------------------------------------------------
(* Program constants *)

\* memory_bank.py:265  "if len(entries) > 100"
CompanyLimit == 100

\* memory_bank.py:273  "[:50]"
RecentKeep == 50

\* memory_bank.py:269  "entry.get('compliance_score', 0) < 70"
HighRiskScore == 70

\* memory_bank.py:19  default of max_entries
DefaultMaxEntries == 10000

\* memory_bank.py:126  lookback_days=180 of get_compliance_trends
TrendLookbackDays == 180

\* memory_bank.py:88  default lookback_days of retrieve_compliance_history
DefaultLookbackDays == 90

\* analyzer_agent.py:36  random.randint(70, 95), the score of an analysis
\* that scored no regulation
FallbackScoreLow == 70

FallbackScoreHigh == 95

\* microseconds in one second (timedelta.total_seconds(), orchestrator.py:93)
MicrosPerSecond == 1000000

\* seconds in one day (timedelta(days=...), memory_bank.py:102)
SecondsPerDay == 86400

\* session_manager.py:20  default of session_timeout_minutes
DefaultSessionTimeoutMinutes == 60

\* session_manager.py:20  default of max_sessions
DefaultMaxSessions == 1000

\* session_manager.py:316  ".total_seconds() / 60"
SecondsPerMinute == 60

\* analyzer_agent.py:47  "random.randint(65, 98)": the ends of the range and
\* a score between them
\* .get('polling_interval', 3600) and the back-off sleep of the monitoring loop
DefaultPollingInterval == 3600

BackoffSeconds == 300

RegulationScoreLow == 65

RegulationScoreMid == 80

RegulationScoreHigh == 98

\* risk_agent.py:80  "max(0, 100 - compliance_score)"; the scores run to 100
FullScore == 100

----------------------------------------------------------------------------
(* Inputs *)

Companies == {"c1", "c2"}


\* how far the wall clock has moved since the previous read of it
ClockSteps == {"us", "sec"}

\* report payloads handed to the bank.  has_summary = FALSE is a payload
\* without the 'executive_summary' key (every .get falls to its default).
\* gap_breakdown is the sequence of the per-regulation gap lists, a gap being
\* represented by its severity.
Payload(hs, score, gaps) ==
    [has_summary |-> hs,
     overall_compliance_score |-> score,
     overall_risk_score |-> 100 - score,
     gap_breakdown |-> gaps]

Payloads ==
    { Payload(FALSE, 0, <<>>),
      Payload(TRUE, HighRiskScore, <<>>),
      Payload(TRUE, HighRiskScore, << <<"low", "high">> >>) }

----------------------------------------------------------------------------
(* Clock *)

NoTime == [sec |-> -1, us |-> 0]

StartTime == [sec |-> 0, us |-> 0]

ClockAfter(t, step) ==
    IF step = "sec" THEN [sec |-> t.sec + 1, us |-> 0]
    ELSE [sec |-> t.sec, us |-> t.us + 1]

\* order of two isoformat() strings = order of the instants
TsLeq(a, b) == a.sec < b.sec \/ (a.sec = b.sec /\ a.us <= b.us)

\* strftime('%Y%m%d-%H%M%S'): the instant truncated to whole seconds
strftime_seconds(t) == t.sec

----------------------------------------------------------------------------
(* Memory bank: pure part.  A bank value is the record of the fields of a     *)
(* ComplianceMemoryBank: max_entries, memory_store (company -> list of        *)
(* entries), audit_trail and metrics.                                         *)

\* ComplianceMemoryBank.__init__
NewBank(max_entries) ==
    [max_entries |-> max_entries,
     memory_store |-> [c \in {} |-> <<>>],
     audit_trail |-> <<>>,
     metrics |-> [total_stored |-> 0,
                  compactions_performed |-> 0,
                  last_compaction |-> NoTime]]

\* any(g.get('severity') == 'high' for g in gap)
HasHighSeverity(gap) == \E j \in 1..Len(gap) : gap[j] = "high"

\* 'high' in str(gap).lower(): the printed gap list contains the word; of the
\* severities low, medium and high only high does
MentionsHigh(gap) == \E j \in 1..Len(gap) : gap[j] \notin {"low", "medium"}

\* _extract_key_findings
extract_key_findings(compliance_data) ==
    [overall_score |->
        IF compliance_data.has_summary
        THEN compliance_data.overall_compliance_score ELSE 0,
     high_priority_gaps |->
        SelectSeq(compliance_data.gap_breakdown, HasHighSeverity)]

\* the memory_entry dict built by store_compliance_check.  serial stands for
\* the identity of the dict object: the number of the store call that built it.
MemoryEntry(serial, company_id, compliance_data, t) ==
    [serial |-> serial,
     entry_id |-> <<company_id, strftime_seconds(t)>>,
     company_id |-> company_id,
     timestamp |-> t,
     compliance_score |->
        IF compliance_data.has_summary
        THEN compliance_data.overall_compliance_score ELSE 0,
     risk_score |->
        IF compliance_data.has_summary
        THEN compliance_data.overall_risk_score ELSE 0,
     key_findings |-> extract_key_findings(compliance_data),
     gap_count |-> Len(compliance_data.gap_breakdown)]

TotalEntries(memory_store) ==
    LET RECURSIVE Sum(_)
        Sum(S) == IF S = {} THEN 0
                  ELSE LET c == CHOOSE x \in S : TRUE
                       IN Len(memory_store[c]) + Sum(S \ {c})
    IN Sum(DOMAIN memory_store)

\* _should_compact
should_compact(bank) ==
    TotalEntries(bank.memory_store) > bank.max_entries

\* the filter of _compact_memory, lines 267-271
IsHighRisk(entry) ==
    \/ entry.compliance_score < HighRiskScore
    \/ \E i \in 1..Len(entry.key_findings.high_priority_gaps) :
           MentionsHigh(entry.key_findings.high_priority_gaps[i])

\* sorted(entries, key=timestamp, reverse=True): stable, newest first.  An
\* entry goes behind the entries with a later timestamp and behind the entries
\* with the same timestamp that precede it in the list.
SortNewestFirst(entries) ==
    LET n == Len(entries)
        rank == <<>> \o [i \in 1..n |->
                    1 + Cardinality({j \in 1..n :
                          \/ ~TsLeq(entries[j].timestamp, entries[i].timestamp)
                          \/ (j < i /\ entries[j].timestamp = entries[i].timestamp)})]
    IN <<>> \o [k \in 1..n |-> entries[CHOOSE i \in 1..n : rank[i] = k]]

Take(s, n) == SubSeq(s, 1, IF Len(s) < n THEN Len(s) ELSE n)

\* list({entry['entry_id']: entry for entry in s}.values()): a key keeps the
\* position of its first occurrence and the value of its last occurrence
DictValuesById(s) ==
    LET n == Len(s)
        id == <<>> \o [i \in 1..n |-> s[i].entry_id]
        firsts == {i \in 1..n : \A j \in 1..(i - 1) : id[j] # id[i]}
        lasts == {i \in 1..n : \A j \in (i + 1)..n : id[j] # id[i]}
        pos == <<>> \o [i \in 1..n |-> Cardinality({j \in firsts : j <= i})]
    IN <<>> \o [k \in 1..Cardinality(firsts) |->
           LET i == CHOOSE x \in firsts : pos[x] = k
           IN s[CHOOSE j \in lasts : id[j] = id[i]]]

\* a compaction that rewrites the score of the entries it keeps
CompactCompanyRescored(entries) ==
    IF Len(entries) > CompanyLimit
    THEN LET high_risk_entries == SelectSeq(entries, IsHighRisk)
             recent_entries == Take(SortNewestFirst(entries), RecentKeep)
             kept == DictValuesById(high_risk_entries \o recent_entries)
         IN <<>> \o [i \in 1..Len(kept) |-> [kept[i] EXCEPT !.compliance_score = 0]]
    ELSE entries

\* a compaction that rewrites every list longer than the recent budget
CompactCompanyAboveRecentKeep(entries) ==
    IF Len(entries) > RecentKeep
    THEN LET high_risk_entries == SelectSeq(entries, IsHighRisk)
             recent_entries == Take(SortNewestFirst(entries), RecentKeep)
         IN DictValuesById(high_risk_entries \o recent_entries)
    ELSE entries

\* the body of the loop of _compact_memory for one company
CompactCompany(entries) ==
    IF Len(entries) > CompanyLimit
    THEN LET high_risk_entries == SelectSeq(entries, IsHighRisk)
             recent_entries == Take(SortNewestFirst(entries), RecentKeep)
         IN DictValuesById(high_risk_entries \o recent_entries)
    ELSE entries

\* _compact_memory
compact_memory(bank, t) ==
    [bank EXCEPT
        !.memory_store = [c \in DOMAIN @ |-> CompactCompany(@[c])],
        !.metrics.compactions_performed = @ + 1,
        !.metrics.last_compaction = t]

\* an append that puts the entry on the company's list twice
AppendEntryTwice(bank, company_id, compliance_data, t) ==
    LET memory_entry == MemoryEntry(bank.metrics.total_stored + 1,
                                    company_id, compliance_data, t)
        old == bank.memory_store
    IN [bank EXCEPT
        !.memory_store =
            [c \in DOMAIN old \cup {company_id} |->
                IF c = company_id
                THEN (IF c \in DOMAIN old THEN old[c] ELSE <<>>)
                         \o <<memory_entry, memory_entry>>
                ELSE old[c]],
        !.audit_trail = Append(@, [action |-> "compliance_check_stored",
                                   company_id |-> company_id,
                                   entry_id |-> memory_entry.entry_id,
                                   timestamp |-> t,
                                   compliance_score |-> memory_entry.compliance_score]),
        !.metrics.total_stored = @ + 1]

\* an append that leaves no record in the audit trail
AppendEntryUnaudited(bank, company_id, compliance_data, t) ==
    LET memory_entry == MemoryEntry(bank.metrics.total_stored + 1,
                                    company_id, compliance_data, t)
        old == bank.memory_store
    IN [bank EXCEPT
        !.memory_store =
            [c \in DOMAIN old \cup {company_id} |->
                IF c = company_id
                THEN (IF c \in DOMAIN old THEN old[c] ELSE <<>>) \o <<memory_entry>>
                ELSE old[c]],
        !.metrics.total_stored = @ + 1]

\* store_compliance_check up to the compaction check: lines 46-77
AppendEntry(bank, company_id, compliance_data, t) ==
    LET memory_entry == MemoryEntry(bank.metrics.total_stored + 1,
                                    company_id, compliance_data, t)
        old == bank.memory_store
    IN [bank EXCEPT
        !.memory_store =
            [c \in DOMAIN old \cup {company_id} |->
                IF c = company_id
                THEN (IF c \in DOMAIN old THEN old[c] ELSE <<>>) \o <<memory_entry>>
                ELSE old[c]],
        !.audit_trail = Append(@, [action |-> "compliance_check_stored",
                                   company_id |-> company_id,
                                   entry_id |-> memory_entry.entry_id,
                                   timestamp |-> t,
                                   compliance_score |-> memory_entry.compliance_score]),
        !.metrics.total_stored = @ + 1]

\* a store that starts the company's list anew when another call stored last
store_compliance_check_lost_update(bank, company_id, compliance_data, t) ==
    LET last_other == /\ bank.audit_trail # <<>>
                      /\ bank.audit_trail[Len(bank.audit_trail)].company_id # company_id
        base == IF last_other
                THEN [bank EXCEPT !.memory_store =
                         [c \in DOMAIN @ \ {bank.audit_trail[Len(bank.audit_trail)].company_id}
                             |-> @[c]]]
                ELSE bank
        appended == AppendEntry(base, company_id, compliance_data, t)
    IN IF should_compact(appended)
       THEN compact_memory(appended, t)
       ELSE appended

\* store_compliance_check: the bank after the call
store_compliance_check(bank, company_id, compliance_data, t) ==
    LET appended == AppendEntry(bank, company_id, compliance_data, t)
    IN IF should_compact(appended)
       THEN compact_memory(appended, t)
       ELSE appended

\* the entry id the call returns
StoredEntryId(company_id, t) == <<company_id, strftime_seconds(t)>>

----------------------------------------------------------------------------
(* Histories the bank can hold when the model starts: the bank after        *)
(* construction, or after n store calls for company c1 made through         *)
(* store_compliance_check itself.                                           *)

\* "spread": one call per second; "burst": the calls of one loop, a
\* microsecond apart, all within one clock second; "daily": one call per day
PrefillKinds == {"spread_mixed", "burst_mixed", "daily_mixed"}

PrefillStep(kind) == IF kind = "burst_mixed" THEN "us" ELSE "sec"

PrefillPayload(kind, i) ==
    IF i % 2 = 1
    THEN Payload(TRUE, HighRiskScore - 1, <<>>)
    ELSE Payload(TRUE, HighRiskScore, <<>>)

\* the clock at the i-th prefill call
PrefillTime(kind, i) ==
    IF kind = "daily_mixed" THEN [sec |-> i * SecondsPerDay, us |-> 0]
    ELSE IF PrefillStep(kind) = "sec" THEN [sec |-> i, us |-> 0]
    ELSE [sec |-> 0, us |-> i]

\* the bank after n <= CompanyLimit prefill calls on a new bank whose
\* max_entries is at least CompanyLimit: none of these calls compacts, each
\* only runs lines 46-77 (AppendEntry).
Prefill(max_entries, kind, n) ==
    [max_entries |-> max_entries,
     memory_store |->
        IF n = 0 THEN [c \in {} |-> <<>>]
        ELSE [c \in {"c1"} |->
                [i \in 1..n |-> MemoryEntry(i, "c1", PrefillPayload(kind, i),
                                            PrefillTime(kind, i))]],
     audit_trail |->
        [i \in 1..n |->
            [action |-> "compliance_check_stored",
             company_id |-> "c1",
             entry_id |-> StoredEntryId("c1", PrefillTime(kind, i)),
             timestamp |-> PrefillTime(kind, i),
             compliance_score |-> PrefillPayload(kind, i).overall_compliance_score]],
     metrics |-> [total_stored |-> n,
                  compactions_performed |-> 0,
                  last_compaction |-> NoTime]]

----------------------------------------------------------------------------
(* Session manager: pure part.  A manager value is the record of the fields  *)
(* of a SessionManager (session_timeout_minutes, max_sessions,               *)
(* active_sessions, session_history, cleanup_task), with the order of the    *)
(* session_history dict (history_order: the ids in the order in which line   *)
(* 193 filed them), the number of                                            *)
(* uuids drawn, the number of _cleanup_loop tasks alive, whether a stop()    *)
(* call is suspended at its await, and whether the name random is bound in   *)
(* the module: session_manager.py uses random at line 159 and never imports  *)
(* it, so the name is bound only where the environment binds it.  (The       *)
(* module does not import typing.List either, which line 215 needs for the   *)
(* class to be defined at all; the model describes the class once defined.)  *)

\* SessionManager.__init__
NewSessionManager(session_timeout_minutes, max_sessions, random_defined) ==
    [session_timeout_minutes |-> session_timeout_minutes,
     max_sessions |-> max_sessions,
     active_sessions |-> [id \in {} |-> <<>>],
     session_history |-> [id \in {} |-> <<>>],
     history_order |-> <<>>,
     cleanup_task |-> "none",
     live_loops |-> 0,
     stopping |-> FALSE,
     uuids |-> 0,
     random_defined |-> random_defined]

\* the final_metrics of a session that has not ended (the key is absent)
NoFinalMetrics ==
    [total_agents_used |-> -1, total_interactions |-> -1,
     processing_time_sum |-> -1, session_duration |-> NoTime, success_rate |-> -1]

\* a timestamp field that a caller has overwritten, through the dict that
\* get_session hands out, with a string that is no ISO timestamp
NotATimestamp == [sec |-> -2, us |-> 0]

\* the dict without keys
EmptyDict == [k \in {} |-> 0]

\* the values of the context dict: an int, a str, a list (of interaction
\* dicts) or a dict (from keys to ints).  type is the Python type of the value
\* and the field of that type holds it; the other fields are at rest.
PyInt(n) == [type |-> "int", int |-> n, str |-> "", list |-> <<>>, dict |-> EmptyDict]

PyStr(text) == [type |-> "str", int |-> 0, str |-> text, list |-> <<>>, dict |-> EmptyDict]

PyList(items) == [type |-> "list", int |-> 0, str |-> "", list |-> items, dict |-> EmptyDict]

PyDict(d) == [type |-> "dict", int |-> 0, str |-> "", list |-> <<>>, dict |-> d]

\* the session_data dict of create_session, lines 62-81.  ended_at NoTime and
\* final_metrics NoFinalMetrics stand for the absent keys; context is the dict
\* of lines 69-75, a function from its keys to its values.
NewSession(session_id, company_id, t) ==
    [session_id |-> session_id,
     company_id |-> company_id,
     workflow_type |-> "compliance_check",
     created_at |-> t,
     last_activity |-> t,
     status |-> "active",
     context |-> [current_step |-> PyStr("initialized"),
                  workflow_progress |-> PyInt(0),
                  agent_interactions |-> PyList(<<>>),
                  compliance_data |-> PyDict(EmptyDict),
                  errors_encountered |-> PyList(<<>>)],
     metrics |-> [agents_used |-> <<>>],
     ended_at |-> NoTime,
     final_metrics |-> NoFinalMetrics]

\* where get_session finds the id: lines 99-106
Where(sm, session_id) ==
    IF session_id \in DOMAIN sm.active_sessions THEN "active"
    ELSE IF session_id \in DOMAIN sm.session_history THEN "history"
    ELSE "none"

\* the dict get_session returns (it is the stored object itself)
Found(sm, session_id) ==
    IF Where(sm, session_id) = "active" THEN sm.active_sessions[session_id]
    ELSE sm.session_history[session_id]

\* the manager with the stored object of the id replaced by its new state
WithSession(sm, session_id, session) ==
    IF Where(sm, session_id) = "active"
    THEN [sm EXCEPT !.active_sessions[session_id] = session]
    ELSE [sm EXCEPT !.session_history[session_id] = session]

\* get_session, its effect on the manager: an active session is touched
get_session(sm, session_id, t) ==
    IF Where(sm, session_id) = "active"
    THEN [sm EXCEPT !.active_sessions[session_id].last_activity = t]
    ELSE sm

\* what get_session_metrics returns, lines 209-212, for the manager as the
\* get_session call of line 208 left it: None for an id that is in neither
\* map, else the metrics dict of the session
get_session_metrics_result(sm, session_id) ==
    IF Where(sm, session_id) = "none"
    THEN [found |-> FALSE, metrics |-> [agents_used |-> <<>>]]
    ELSE [found |-> TRUE, metrics |-> Found(sm, session_id).metrics]

\* the workflow_type argument left out, or one that is not truthy (line 230)
NoWorkflowType == ""

\* the sessions that the loops of lines 228-237 append
Matching(sm, company_id, workflow_type) ==
    {id \in DOMAIN sm.active_sessions \cup DOMAIN sm.session_history :
        /\ Found(sm, id).company_id = company_id
        /\ workflow_type = NoWorkflowType \/ Found(sm, id).workflow_type = workflow_type}

\* the place of a session in the session_history dict
PlaceInHistory(sm, id) ==
    CHOOSE i \in 1..Len(sm.history_order) : sm.history_order[i] = id

\* the loops append session a before session b: the active sessions in the
\* order of their dict (the order of creation), then those of the history in
\* the order of its dict (the order in which the sessions were ended)
AppendedBefore(sm, a, b) ==
    IF Where(sm, a) # Where(sm, b) THEN Where(sm, a) = "active"
    ELSE IF Where(sm, a) = "active" THEN a < b
    ELSE PlaceInHistory(sm, a) < PlaceInHistory(sm, b)

\* the created_at string of a is greater than that of b: ISO timestamps
\* compare as their times, and 'not a timestamp' is above every one of them
CreatedLater(sm, a, b) ==
    IF Found(sm, a).created_at = NotATimestamp
    THEN Found(sm, b).created_at # NotATimestamp
    ELSE /\ Found(sm, b).created_at # NotATimestamp
         /\ ~TsLeq(Found(sm, a).created_at, Found(sm, b).created_at)

\* get_workflow_sessions, lines 214-243: the sessions of the company, and of
\* the workflow type where one is given, sorted by created_at, newest first;
\* the sort of line 241 is stable, so sessions of equal created_at keep the
\* order in which they were appended.  The list holds the stored dicts, here
\* their ids.  No session is changed: last_activity stays as it is.
get_workflow_sessions(sm, company_id, workflow_type) ==
    LET sessions == Matching(sm, company_id, workflow_type)
        Ahead(a) == {b \in sessions \ {a} :
                        \/ CreatedLater(sm, b, a)
                        \/ ~CreatedLater(sm, a, b) /\ AppendedBefore(sm, b, a)}
    IN [i \in 1..Cardinality(sessions) |->
           CHOOSE a \in sessions : Cardinality(Ahead(a)) = i - 1]

\* dict.update of line 127
dict_update(d, other) ==
    [k \in DOMAIN d \cup DOMAIN other |-> IF k \in DOMAIN other THEN other[k] ELSE d[k]]

\* the merge loop of update_session_context, lines 125-129: for every key of
\* the updates, a dict that the context holds under the key is updated with a
\* dict; any other value is overwritten, and a key the context does not have
\* is added
merge_context(context, context_updates) ==
    [key \in DOMAIN context \cup DOMAIN context_updates |->
        IF key \notin DOMAIN context_updates THEN context[key]
        ELSE IF /\ key \in DOMAIN context
                /\ context[key].type = "dict"
                /\ context_updates[key].type = "dict"
             THEN PyDict(dict_update(context[key].dict, context_updates[key].dict))
             ELSE context_updates[key]]

\* update_session_context, its effect on the manager
update_session_context(sm, session_id, context_updates, t) ==
    LET got == get_session(sm, session_id, t)
    IN IF Where(sm, session_id) = "none" THEN sm
       ELSE WithSession(got, session_id,
                [Found(got, session_id) EXCEPT
                    !.context = merge_context(@, context_updates),
                    !.last_activity = t])

\* the workflow_steps table of _update_workflow_progress
workflow_steps ==
    [regulation_monitor |-> 25, compliance_analyzer |-> 50,
     risk_assessor |-> 75, report_generator |-> 100]

\* max() of line 274 raises TypeError: the agent has a milestone and the
\* workflow_progress of the context is no number
progress_raises(context, agent_name) ==
    /\ agent_name \in DOMAIN workflow_steps
    /\ context.workflow_progress.type # "int"

\* _update_workflow_progress, on the context
update_workflow_progress(context, agent_name) ==
    [context EXCEPT
        !.workflow_progress =
            IF agent_name \in DOMAIN workflow_steps /\ workflow_steps[agent_name] > @.int
            THEN PyInt(workflow_steps[agent_name]) ELSE @,
        !.current_step = PyStr("completed_" \o agent_name)]

\* how record_agent_interaction ends.  "false": no session.  "raised":
\* NameError at line 159 where random is not bound; AttributeError at line 162
\* where agent_interactions is no list; TypeError at line 274.
record_agent_interaction_result(sm, session_id, agent_name) ==
    IF Where(sm, session_id) = "none" THEN "false"
    ELSE IF ~sm.random_defined THEN "raised"
    ELSE IF Found(sm, session_id).context.agent_interactions.type # "list" THEN "raised"
    ELSE IF progress_raises(Found(sm, session_id).context, agent_name) THEN "raised"
    ELSE "true"

\* record_agent_interaction, its effect on the manager.  For a session that
\* is found, lines 159 and 162 raise after the get_session of line 150 and
\* before anything is recorded, line 274 after the interaction and the agent
\* were appended.
record_agent_interaction(sm, session_id, agent_name, processing_time_ms, t) ==
    LET got == get_session(sm, session_id, t)
        interaction == [agent |-> agent_name, timestamp |-> t,
                        processing_time_ms |-> processing_time_ms]
    IN IF \/ Where(sm, session_id) = "none"
          \/ ~sm.random_defined
          \/ Found(sm, session_id).context.agent_interactions.type # "list"
       THEN got
       ELSE WithSession(got, session_id,
                [Found(got, session_id) EXCEPT
                    !.context =
                        LET appended == [@ EXCEPT !.agent_interactions =
                                            PyList(Append(@.list, interaction))]
                        IN IF progress_raises(@, agent_name) THEN appended
                           ELSE update_workflow_progress(appended, agent_name),
                    !.metrics.agents_used = Append(@, agent_name)])

\* sum of the processing times of the interactions
SumProcessingTimes(interactions) ==
    LET RECURSIVE Sum(_)
        Sum(n) == IF n = 0 THEN 0 ELSE interactions[n].processing_time_ms + Sum(n - 1)
    IN Sum(Len(interactions))

\* _calculate_final_metrics raises: len() of an int at line 287, .get of the
\* characters of a str or the keys of a dict at line 289, or fromisoformat of
\* a created_at that is no timestamp at line 293
final_metrics_raise(session) ==
    LET interactions == session.context.agent_interactions
    IN \/ interactions.type = "int"
       \/ interactions.type = "str" /\ interactions.str # ""
       \/ interactions.type = "dict" /\ DOMAIN interactions.dict # {}
       \/ session.created_at = NotATimestamp

\* _calculate_final_metrics where it returns; the average is kept as the sum
\* it divides, the duration as its seconds and microseconds.  An empty str or
\* dict of interactions counts as no interaction.
calculate_final_metrics(session) ==
    LET interactions == session.context.agent_interactions.list
    IN [total_agents_used |->
           Cardinality({session.metrics.agents_used[i] :
                           i \in 1..Len(session.metrics.agents_used)}),
        total_interactions |-> Len(interactions),
        processing_time_sum |-> SumProcessingTimes(interactions),
        session_duration |-> [sec |-> session.ended_at.sec - session.created_at.sec,
                              us |-> session.ended_at.us - session.created_at.us],
        success_rate |-> IF session.status = "completed" THEN 100 ELSE 0]

\* the dict of the session after lines 188-190
Ended(session, status, t) ==
    LET ended == [session EXCEPT !.ended_at = t, !.status = status]
    IN [ended EXCEPT !.final_metrics = calculate_final_metrics(ended)]

\* how end_session ends.  "raised": _calculate_final_metrics raised at line 190
end_session_result(sm, session_id) ==
    IF session_id \notin DOMAIN sm.active_sessions THEN "false"
    ELSE IF final_metrics_raise(sm.active_sessions[session_id]) THEN "raised"
    ELSE "true"

\* end_session, its effect on the manager: the session is popped from the
\* active sessions at line 182 and filed in the history at line 193; where
\* line 190 raises in between, it is in neither
end_session(sm, session_id, status, t) ==
    IF end_session_result(sm, session_id) = "false" THEN sm
    ELSE IF end_session_result(sm, session_id) = "raised"
    THEN [sm EXCEPT !.active_sessions = [id \in DOMAIN @ \ {session_id} |-> @[id]]]
    ELSE [sm EXCEPT
             !.active_sessions =
                 [id \in DOMAIN @ \ {session_id} |-> @[id]],
             !.session_history =
                 [id \in DOMAIN @ \cup {session_id} |->
                     IF id = session_id
                     THEN Ended(sm.active_sessions[session_id], status, t) ELSE @[id]],
             !.history_order = Append(@, session_id)]

\* (current_time - last_activity).total_seconds() / 60 > timeout_minutes.
\* The microsecond counts differ by less than a second, so the elapsed time
\* exceeds the timeout when the seconds elapsed do, or when they equal it
\* and microseconds have elapsed besides.
TimedOut(last_activity, current_time, timeout_minutes) ==
    LET seconds == current_time.sec - last_activity.sec
        micros == current_time.us - last_activity.us
    IN \/ seconds > timeout_minutes * SecondsPerMinute
       \/ seconds = timeout_minutes * SecondsPerMinute /\ micros > 0

\* line 315 raises for one of the active sessions: its last_activity is no
\* timestamp
scan_raises(sm) ==
    \E id \in DOMAIN sm.active_sessions :
        sm.active_sessions[id].last_activity = NotATimestamp

\* the first loop of _cleanup_expired_sessions, lines 314-319, where it does
\* not raise
expired_sessions(sm, current_time) ==
    {id \in DOMAIN sm.active_sessions :
        TimedOut(sm.active_sessions[id].last_activity, current_time,
                 sm.session_timeout_minutes)}

\* of the ids, those whose end_session call raises
Raising(sm, ids) ==
    {id \in ids \cap DOMAIN sm.active_sessions : final_metrics_raise(sm.active_sessions[id])}

\* the first of the ids, taken in the order of the active_sessions dict (the
\* order of creation), whose end_session call raises; 0 where none does
FirstRaising(sm, ids) ==
    IF Raising(sm, ids) = {} THEN 0
    ELSE CHOOSE id \in Raising(sm, ids) : \A other \in Raising(sm, ids) : id <= other

\* the ids in the order of the active_sessions dict, the order of creation
InDictOrder(ids) ==
    [i \in 1..Cardinality(ids) |->
        CHOOSE id \in ids : Cardinality({other \in ids : other < id}) = i - 1]

\* the loops of lines 44-45 and 321-323: end_session for the ids one after
\* the other, in the order of the active_sessions dict, up to the first call
\* that raises, which ends the loop with its session in neither map
end_sessions(sm, ids, status, t) ==
    LET first == FirstRaising(sm, ids)
        called == {id \in ids \cap DOMAIN sm.active_sessions : first = 0 \/ id <= first}
    IN [sm EXCEPT
           !.active_sessions = [id \in DOMAIN @ \ called |-> @[id]],
           !.session_history =
               [id \in DOMAIN @ \cup (called \ {first}) |->
                   IF id \in called
                   THEN Ended(sm.active_sessions[id], status, t) ELSE @[id]],
           !.history_order = @ \o InDictOrder(called \ {first})]

\* how the loop of lines 44-45 leaves stop(): "raised" by an end_session call
stop_result(sm) ==
    IF Raising(sm, DOMAIN sm.active_sessions) # {} THEN "raised" ELSE "returned"

\* how _cleanup_expired_sessions ends: "raised" in its first loop, at line
\* 315, or in its second, in an end_session call
cleanup_expired_sessions_result(sm, current_time) ==
    IF scan_raises(sm) THEN "raised"
    ELSE IF Raising(sm, expired_sessions(sm, current_time)) # {} THEN "raised"
    ELSE "returned"

\* _cleanup_expired_sessions, its effect on the manager
cleanup_expired_sessions(sm, current_time) ==
    IF scan_raises(sm) THEN sm
    ELSE end_sessions(sm, expired_sessions(sm, current_time), "timeout", current_time)

----------------------------------------------------------------------------
(* Agents: pure part.  The regulation monitor (agents/monitor_agent.py) and  *)
(* the compliance analyzer (agents/analyzer_agent.py).                       *)

\* config['compliance']['regulations'] of the sample configurations
DefaultRegulations == <<"GDPR", "HIPAA", "SOX">>

\* the texts of the exceptions; "" stands for the absent 'error' key
NoError == ""

\* how one _fetch_regulation_data call ends.  "ok": it returns the data of
\* line 117.  "caught": its body raises, the handler of line 119 catches the
\* exception and it returns the dict of line 121.  "raised": the coroutine
\* itself raises, which lines 49-51 of the caller provide for.
FetchOutcomes == {"ok", "caught", "raised"}

\* the ASCII letters, which str.upper() maps position by position
LowerCase == "abcdefghijklmnopqrstuvwxyz"

UpperCase == "ABCDEFGHIJKLMNOPQRSTUVWXYZ"

\* the capital of each lower-case letter
CapitalOf ==
    [c \in {SubSeq(LowerCase, i, i) : i \in 1..Len(LowerCase)} |->
        LET i == CHOOSE j \in 1..Len(LowerCase) : SubSeq(LowerCase, j, j) = c
        IN SubSeq(UpperCase, i, i)]

\* regulation.upper() of lines 79, 90 and 100, character by character: a
\* lower-case letter becomes its capital, any other character stays
regulation_upper(regulation) ==
    LET RECURSIVE str_upper(_)
        str_upper(s) ==
            IF Len(s) = 0 THEN ""
            ELSE LET c == SubSeq(s, 1, 1)
                 IN (IF c \in DOMAIN CapitalOf THEN CapitalOf[c] ELSE c)
                        \o str_upper(SubSeq(s, 2, Len(s)))
    IN str_upper(regulation)

\* the content fields chosen by regulation.upper(), lines 79-115
regulation_content(regulation) ==
    LET content_of(name) ==
            CASE name = "GDPR" -> "key_articles"
              [] name = "HIPAA" -> "key_rules"
              [] name = "SOX" -> "key_sections"
              [] OTHER -> "description"
    IN content_of(regulation_upper(regulation))

\* _fetch_regulation_data: what its task ends with, a dict or an exception.
\* regulation "" and content "none" stand for absent keys.
fetch_regulation_data(regulation, outcome) ==
    IF outcome = "raised"
    THEN [kind |-> "exception", regulation |-> "", error |-> "fetch_raised",
          content |-> "none"]
    ELSE IF outcome = "caught"
    THEN [kind |-> "dict", regulation |-> regulation, error |-> "fetch_error",
          content |-> "none"]
    ELSE [kind |-> "dict", regulation |-> regulation, error |-> NoError,
          content |-> regulation_content(regulation)]

\* the dataset entry made of one task's result, lines 49-54
dataset_entry(result) ==
    IF result.kind = "exception"
    THEN [status |-> "failed", error |-> result.error, regulation |-> "",
          content |-> "none"]
    ELSE [status |-> "success", error |-> result.error,
          regulation |-> result.regulation, content |-> result.content]

\* gather_regulatory_data from line 48 on: the dict returned, made of the
\* results of the tasks in the order of regulatory_sources
regulatory_dataset(regulatory_sources, results, t) ==
    LET n == Len(regulatory_sources)
        names == {regulatory_sources[i] : i \in 1..n}
        LastOf(name) == CHOOSE i \in 1..n :
                            /\ regulatory_sources[i] = name
                            /\ \A j \in (i + 1)..n : regulatory_sources[j] # name
        regulatory_data == [name \in names |-> dataset_entry(results[LastOf(name)])]
    IN [regulatory_data |-> regulatory_data,
        timestamp |-> t,
        sources_checked |-> n,
        successful_fetches |->
            Cardinality({name \in names : regulatory_data[name].status = "success"})]

\* no result yet; timestamp NoTime and the counts -1 stand for absent keys
NoDataset ==
    [regulatory_data |-> [name \in {} |-> 0], timestamp |-> NoTime,
     sources_checked |-> -1, successful_fetches |-> -1]

\* what the stand-in for gather_regulatory_data returns in
\* test_orchestrator_workflow: two entries, no other key
StandInDataset ==
    [regulatory_data |-> [name \in {"GDPR", "HIPAA"} |->
                             [status |-> "success", error |-> NoError,
                              regulation |-> "", content |-> "none"]],
     timestamp |-> NoTime,
     sources_checked |-> -1,
     successful_fetches |-> -1]

\* RegulationMonitorAgent.__init__; tasks are the fetch tasks of the gather
\* call in progress, each "running" or ended with its result; callbacks are
\* the ended tasks whose completion the gather of line 46 has yet to be told
\* of, in the order they ended, notified those it has been told of, and
\* gather is that future: "none" outside a call, "pending", holding the
\* "result", or set to an "exception".  patched: a test has put a stand-in in
\* the place of gather_regulatory_data.
NewMonitor(regulatory_sources) ==
    [regulatory_sources |-> regulatory_sources,
     last_check |-> NoTime,
     gathering |-> FALSE,
     tasks |-> <<>>,
     patched |-> FALSE,
     callbacks |-> <<>>,
     notified |-> {},
     gather |-> "none"]

ChangeTypes == {"guideline_update", "deadline_change", "new_requirement", "clarification"}

ImpactLevels == {"low", "medium", "high"}

\* detect_regulatory_changes for the draws of random at lines 129-142:
\* has_changes is random.random() < 0.2, pick the index random.choice draws.
\* random.choice raises IndexError on an empty list.
detect_regulatory_changes(regulatory_sources, has_changes, pick, change_type, impact_level, action_required) ==
    IF has_changes /\ Len(regulatory_sources) = 0
    THEN [kind |-> "exception", has_changes |-> FALSE, changes |-> <<>>,
          checked_regulations |-> regulatory_sources]
    ELSE [kind |-> "dict",
          has_changes |-> has_changes,
          changes |->
              IF has_changes
              THEN <<[regulation |->
                          regulatory_sources[(pick % Len(regulatory_sources)) + 1],
                      change_type |-> change_type,
                      impact_level |-> impact_level,
                      action_required |-> action_required]>>
              ELSE <<>>,
          checked_regulations |-> regulatory_sources]

\* asyncio.create_task(monitoring_loop()): the task before its first step.
\* pc is where the coroutine is suspended ("polling_sleep": the await of line
\* 156; "backoff_sleep": the await of line 163), sleeping the delay of that
\* sleep while it is pending and 0 once it has ended and the task is ready to
\* go on, cancel_requested a cancel() not yet delivered, outcome how the task
\* ended ("finished": the coroutine returned; "cancelled": CancelledError
\* left it)
NewLoop ==
    [pc |-> "created", sleeping |-> 0, cancel_requested |-> FALSE, outcome |-> "running"]

\* the keys of ComplianceOrchestrator.agents
StageNames == {"monitor", "analyzer", "risk_assessor", "reporter"}

\* BaseComplianceAgent.__init__, lines 32-36: the metrics of an agent
NewMetrics == [last_activity |-> NoTime, requests_processed |-> 0, errors |-> 0]

\* the agents of ComplianceOrchestrator.__init__, its monitoring_task (an index
\* into loops, the monitoring_loop tasks created so far; 0 is None), the
\* position of a shutdown() call, and whether config['agents'] has the
\* 'regulation_monitor' key.  sessions is the session attribute of each
\* agent ("none" is None, "open" a session object) and metrics its metrics
\* dict.  Of the last shutdown() call, awaited_task is the task it cancelled
\* and awaits at line 186 (0: it had none), loops_at_shutdown how many
\* monitoring_loop tasks existed when it was called, and stage_shutdowns how
\* the shutdown() task of each agent ended ("none": it has not run).
NewAgents(regulatory_sources) ==
    [metrics |-> [name \in StageNames |-> NewMetrics],
     monitor |-> NewMonitor(regulatory_sources),
     monitoring_task |-> 0,
     loops |-> <<>>,
     shutdown |-> "none",
     config_has_monitor |-> TRUE,
     sessions |-> [name \in StageNames |-> "none"],
     stage_shutdowns |-> [name \in StageNames |-> "none"],
     awaited_task |-> 0,
     loops_at_shutdown |-> 0]

\* the top-level items of the monitor's result, as analyze_compliance reads
\* them: the keys the result has, none of them with a dict that has a
\* 'status'
WholeResult(dataset) ==
    [key \in {"regulatory_data"}
                \cup (IF dataset.timestamp # NoTime THEN {"timestamp"} ELSE {})
                \cup (IF dataset.sources_checked # -1 THEN {"sources_checked"} ELSE {})
                \cup (IF dataset.successful_fetches # -1
                      THEN {"successful_fetches"} ELSE {}) |->
        [status |-> "none"]]

\* sum(scores) over the scored regulations
SumOf(regulation_scores) ==
    LET RECURSIVE Sum(_)
        Sum(S) == IF S = {} THEN 0
                  ELSE LET k == CHOOSE x \in S : TRUE
                       IN regulation_scores[k] + Sum(S \ {k})
    IN Sum(DOMAIN regulation_scores)

\* _assess_compliance_risk: the risk level, lines 125-130
compliance_risk_level(overall_score) ==
    IF overall_score >= 90 THEN "low"
    ELSE IF overall_score >= 75 THEN "medium" ELSE "high"

\* analyze_compliance with a mean rounded to the nearest integer
analyze_compliance_rounding(regulatory_data, score_of, fallback) ==
    LET scored == {k \in DOMAIN regulatory_data : regulatory_data[k].status = "success"}
        regulation_scores == [k \in scored |-> score_of[k]]
        overall_score ==
            IF scored # {}
            THEN (2 * SumOf(regulation_scores) + Cardinality(scored))
                     \div (2 * Cardinality(scored))
            ELSE fallback
    IN [overall_score |-> overall_score,
        regulation_scores |-> regulation_scores,
        risk_level |-> compliance_risk_level(overall_score)]

\* analyze_compliance: the scores of the result.  regulatory_data maps each
\* top-level key of the argument to its item, score_of gives the
\* random.randint(65, 98) drawn for a key, fallback the
\* random.randint(70, 95) of line 36.
analyze_compliance(regulatory_data, score_of, fallback) ==
    LET scored == {k \in DOMAIN regulatory_data : regulatory_data[k].status = "success"}
        regulation_scores == [k \in scored |-> score_of[k]]
        overall_score ==
            IF scored # {}
            THEN SumOf(regulation_scores) \div Cardinality(scored)
            ELSE fallback
    IN [overall_score |-> overall_score,
        regulation_scores |-> regulation_scores,
        risk_level |-> compliance_risk_level(overall_score)]

----------------------------------------------------------------------------
(* State *)

VARIABLES
    memory_bank,      \* the ComplianceMemoryBank: its fields max_entries,
                      \* memory_store, audit_trail and metrics
    now,              \* the wall clock at its last read
    api,              \* direct calls on the bank: how many, and the last one's result
    has_memory_bank,  \* ComplianceOrchestrator.memory_bank is set
    session_manager,  \* the SessionManager: its fields, its reaper tasks and the
                      \* names bound in its module
    workflow_history, \* ComplianceOrchestrator.workflow_history
    run,              \* the execute_compliance_check calls made, in call order
    agents            \* the agents of the orchestrator as far as they keep
                      \* state: the monitor and its gather call in progress,
                      \* and ComplianceOrchestrator.monitoring_task

vars == <<memory_bank, now, api, has_memory_bank, session_manager, workflow_history, run,
          agents>>

memory_store == memory_bank.memory_store

audit_trail == memory_bank.audit_trail

metrics == memory_bank.metrics

NoCall == [op |-> "none"]

\* the banks the model starts from: <<max_entries, prefill kind, prefill calls>>.
\* max_entries is the per-company limit or the next value, with one company
\* at the limit; or the default, with a new bank.
BankChoices ==
    ({CompanyLimit, CompanyLimit + 1} \X PrefillKinds \X {CompanyLimit})
        \cup {<<DefaultMaxEntries, "spread_mixed", 0>>, <<1, "spread_mixed", 0>>}

\* a new bank with the default max_entries
NewBankChoices == {<<DefaultMaxEntries, "spread_mixed", 0>>}

\* a bank filled to its max_entries by one company at the per-company limit,
\* a bank of the default max_entries with one company at that limit, a bank
\* filled to its max_entries by one company above that limit, a new bank,
\* and a new bank that the second entry already fills beyond its max_entries
LoadedBankChoices ==
    {<<CompanyLimit, "spread_mixed", CompanyLimit>>,
     <<DefaultMaxEntries, "spread_mixed", CompanyLimit>>,
     <<CompanyLimit + 1, "spread_mixed", CompanyLimit + 1>>,
     <<1, "spread_mixed", 0>>}
        \cup NewBankChoices

InitBank(choices) ==
    /\ \E ch \in choices :
         /\ memory_bank = Prefill(ch[1], ch[2], ch[3])
         /\ now = PrefillTime(ch[2], ch[3])
    /\ api = [ops |-> 0, last |-> NoCall]

----------------------------------------------------------------------------
(* Memory bank: the public operations, called directly *)

\* await memory_bank.store_compliance_check(company_id, compliance_data)
Store(company_id, compliance_data, step) ==
    /\ api.ops < MaxOps
    /\ now' = ClockAfter(now, step)
    /\ memory_bank' = store_compliance_check(memory_bank, company_id, compliance_data, now')
    /\ api' = [api EXCEPT !.ops = @ + 1,
                          !.last = [op |-> "store", company_id |-> company_id,
                                    compliance_data |-> compliance_data,
                                    entry_id |-> StoredEntryId(company_id, now')]]
    /\ UNCHANGED <<has_memory_bank, session_manager, workflow_history, run, agents>>

\* a retrieval that filters by the cutoff and returns the entries in the
\* order the store holds them
retrieve_compliance_history_stored_order(store, company_id, lookback_days, t) ==
    IF company_id \notin DOMAIN store THEN <<>>
    ELSE LET cutoff_date == [sec |-> t.sec - lookback_days * SecondsPerDay, us |-> t.us]
             InWindow(entry) == TsLeq(cutoff_date, entry.timestamp)
         IN SelectSeq(store[company_id], InWindow)

\* retrieve_compliance_history: the list returned
retrieve_compliance_history(store, company_id, lookback_days, t) ==
    IF company_id \notin DOMAIN store THEN <<>>
    ELSE LET cutoff_date == [sec |-> t.sec - lookback_days * SecondsPerDay, us |-> t.us]
             InWindow(entry) == TsLeq(cutoff_date, entry.timestamp)
         IN SortNewestFirst(SelectSeq(store[company_id], InWindow))

\* a retrieval that starts an empty list for a company it does not know
RetrieveCreating(company_id, lookback_days) ==
    /\ api.ops < MaxOps
    /\ now' = ClockAfter(now, "us")
    /\ api' = [api EXCEPT !.ops = @ + 1,
                          !.last = [op |-> "retrieve", company_id |-> company_id,
                                    lookback_days |-> lookback_days,
                                    history |-> retrieve_compliance_history(
                                        memory_store, company_id, lookback_days, now')]]
    /\ memory_bank' = [memory_bank EXCEPT !.memory_store =
                          [c \in DOMAIN @ \cup {company_id} |->
                              IF c \in DOMAIN @ THEN @[c] ELSE <<>>]]
    /\ UNCHANGED <<has_memory_bank, session_manager, workflow_history, run, agents>>

\* await memory_bank.retrieve_compliance_history(company_id, lookback_days)
Retrieve(company_id, lookback_days) ==
    /\ api.ops < MaxOps
    /\ now' = ClockAfter(now, "us")
    /\ api' = [api EXCEPT !.ops = @ + 1,
                          !.last = [op |-> "retrieve", company_id |-> company_id,
                                    lookback_days |-> lookback_days,
                                    history |-> retrieve_compliance_history(
                                        memory_store, company_id, lookback_days, now')]]
    /\ UNCHANGED <<memory_bank, has_memory_bank, session_manager, workflow_history, run, agents>>

\* sum(scores)
SumScores(scores) ==
    LET RECURSIVE Sum(_)
        Sum(V) == IF V = {} THEN 0
                  ELSE LET v == CHOOSE x \in V : TRUE
                       IN v * Cardinality({i \in 1..Len(scores) : scores[i] = v}) + Sum(V \ {v})
    IN Sum({scores[i] : i \in 1..Len(scores)})

\* get_compliance_trends: what the call returns.  The gaps collected from
\* key_findings are lists, which Counter() cannot hash: with any of them the
\* call raises TypeError at line 150.
get_compliance_trends(store, company_id, t) ==
    LET history == retrieve_compliance_history(store, company_id, TrendLookbackDays, t)
        n == Len(history)
        scores == [i \in 1..n |-> history[i].compliance_score]
        risk_scores == [i \in 1..n |-> history[i].risk_score]
    IN IF n = 0 THEN [outcome |-> "error"]
       ELSE IF \E i \in 1..n : history[i].key_findings.high_priority_gaps # <<>>
       THEN [outcome |-> "raised"]
       ELSE [outcome |-> "report",
             assessments |-> n,
             current_score |-> scores[1],
             score_sum |-> SumScores(scores),
             score_trend |->
                IF n < 2 THEN "insufficient_data"
                ELSE IF scores[1] > scores[n] THEN "improving"
                ELSE IF scores[1] < scores[n] THEN "declining" ELSE "stable",
             risk_trend |->
                IF n < 2 THEN "insufficient_data"
                ELSE IF risk_scores[1] < risk_scores[n] THEN "improving"
                ELSE IF risk_scores[1] > risk_scores[n] THEN "declining" ELSE "stable",
             confidence_in_trends |-> IF n * 10 < 95 THEN n * 10 ELSE 95]

\* await memory_bank.get_compliance_trends(company_id)
Trends(company_id) ==
    /\ api.ops < MaxOps
    /\ now' = ClockAfter(now, "us")
    /\ api' = [api EXCEPT !.ops = @ + 1,
                          !.last = [op |-> "trends", company_id |-> company_id,
                                    trends |-> get_compliance_trends(memory_store,
                                                                     company_id, now')]]
    /\ UNCHANGED <<memory_bank, has_memory_bank, session_manager, workflow_history, run, agents>>

NextBank ==
    \/ \E c \in Companies, p \in Payloads, step \in ClockSteps : Store(c, p, step)
    \/ \E c \in Companies, d \in {0, DefaultLookbackDays} : Retrieve(c, d)
    \/ \E c \in Companies : Trends(c)

InitOrchestrator ==
    /\ workflow_history = <<>>
    /\ run = <<>>
    /\ session_manager = NewSessionManager(DefaultSessionTimeoutMinutes,
                                           DefaultMaxSessions, FALSE)
    /\ agents = NewAgents(DefaultRegulations)

InitBankOnly ==
    /\ InitBank(BankChoices)
    /\ has_memory_bank = TRUE
    /\ InitOrchestrator

SpecBank == InitBankOnly /\ [][NextBank]_vars

----------------------------------------------------------------------------
(* Session manager: the public operations, the reaper, the passing of time *)

\* the ids a caller holds: the uuids returned so far, and 0, an id that no
\* create_session call returned
SessionIds == 0..session_manager.uuids

\* context_updates of update_session_context: a number for the progress, a
\* dict for the compliance_data dict, a number in the place of the
\* agent_interactions list, a str for the progress and for the current step,
\* and a key the context does not have
ContextUpdates ==
    { [workflow_progress |-> PyInt(50)],
      [workflow_progress |-> PyInt(10)],
      [compliance_data |-> PyDict([gdpr |-> 80])],
      [agent_interactions |-> PyInt(5)],
      [current_step |-> PyStr("manual_review"), workflow_progress |-> PyStr("half")],
      [new_key |-> PyInt(1)] }

\* agent names of record_agent_interaction: two of the workflow steps and a
\* name outside the table
AgentNames == {"regulation_monitor", "report_generator", "custom_agent"}

\* random.randint(100, 5000), the ends of the range
ProcessingTimes == {100, 5000}

\* status of an explicit end_session: the default and another
EndStatuses == {"completed", "cancelled"}

NoSession == [session_id |-> -1]

\* workflow_type arguments of get_workflow_sessions: none, the type of every
\* session that create_session makes by default, and another
WorkflowTypes == {NoWorkflowType, "compliance_check", "risk_review"}

\* one more call on the session manager, its result kept
SessionCall(last) ==
    /\ api.ops < MaxSessionOps
    /\ api' = [ops |-> api.ops + 1, last |-> last]
    /\ UNCHANGED <<memory_bank, has_memory_bank, workflow_history, run, agents>>

\* await session_manager.start()
SessionStart ==
    /\ now' = now
    /\ session_manager' = [session_manager EXCEPT !.cleanup_task = "running",
                                                   !.live_loops = @ + 1]
    /\ SessionCall([op |-> "start"])

\* await session_manager.stop().  With a cleanup task that is still running
\* the call cancels it and is suspended at line 39 until the task has ended;
\* otherwise it goes on to line 44 and ends the active sessions one after the
\* other, until an end_session call raises, which ends the stop() call too.
SessionStop ==
    /\ ~session_manager.stopping
    /\ IF session_manager.cleanup_task = "running"
       THEN /\ now' = now
            /\ session_manager' = [session_manager EXCEPT !.cleanup_task = "cancelled",
                                                           !.live_loops = @ - 1,
                                                           !.stopping = TRUE]
            /\ SessionCall([op |-> "stop", result |-> "suspended"])
       ELSE /\ now' = ClockAfter(now, "us")
            /\ session_manager' =
                  end_sessions(session_manager, DOMAIN session_manager.active_sessions,
                               "completed", now')
            /\ SessionCall([op |-> "stop", result |-> stop_result(session_manager)])

\* the suspended stop() resumes: lines 43-47, up to the first end_session
\* call that raises
SessionStopResume ==
    /\ session_manager.stopping
    /\ now' = ClockAfter(now, "us")
    /\ session_manager' =
          [end_sessions(session_manager, DOMAIN session_manager.active_sessions,
                        "completed", now') EXCEPT !.stopping = FALSE]
    /\ api' = [api EXCEPT !.last = [op |-> "stop",
                                    result |-> stop_result(session_manager)]]
    /\ UNCHANGED <<memory_bank, has_memory_bank, workflow_history, run, agents>>

\* await session_manager.create_session(company_id)
CreateSession(company_id) ==
    /\ session_manager.uuids < MaxSessions
    /\ now' = ClockAfter(now, "us")
    /\ LET session_id == session_manager.uuids + 1
       IN /\ session_manager' =
                [session_manager EXCEPT
                    !.uuids = session_id,
                    !.active_sessions =
                        [id \in DOMAIN @ \cup {session_id} |->
                            IF id = session_id
                            THEN NewSession(session_id, company_id, now') ELSE @[id]]]
          /\ SessionCall([op |-> "create", session_id |-> session_id])

\* await session_manager.get_session(session_id)
GetSession(session_id) ==
    /\ now' = ClockAfter(now, "us")
    /\ session_manager' = get_session(session_manager, session_id, now')
    /\ SessionCall([op |-> "get", session_id |-> session_id,
                    where |-> Where(session_manager, session_id),
                    result |-> IF Where(session_manager, session_id) = "none"
                               THEN NoSession
                               ELSE Found(session_manager', session_id)])

\* await session_manager.get_session_metrics(session_id): the get_session
\* call of line 208 and what it does to last_activity, then the metrics
GetSessionMetrics(session_id) ==
    /\ now' = ClockAfter(now, "us")
    /\ session_manager' = get_session(session_manager, session_id, now')
    /\ SessionCall([op |-> "metrics", session_id |-> session_id,
                    where |-> Where(session_manager, session_id),
                    result |-> get_session_metrics_result(session_manager', session_id)])

\* await session_manager.get_workflow_sessions(company_id, workflow_type):
\* it reads the two maps and neither the clock nor last_activity
GetWorkflowSessions(company_id, workflow_type) ==
    /\ now' = now
    /\ session_manager' = session_manager
    /\ SessionCall([op |-> "workflow_sessions", company_id |-> company_id,
                    workflow_type |-> workflow_type,
                    sessions |-> get_workflow_sessions(session_manager, company_id,
                                                       workflow_type)])

\* await session_manager.update_session_context(session_id, context_updates)
UpdateContext(session_id, context_updates) ==
    /\ now' = ClockAfter(now, "us")
    /\ session_manager' =
          update_session_context(session_manager, session_id, context_updates, now')
    /\ SessionCall([op |-> "update", session_id |-> session_id,
                    where |-> Where(session_manager, session_id),
                    result |-> IF Where(session_manager, session_id) = "none"
                               THEN "false" ELSE "true"])

\* await session_manager.record_agent_interaction(session_id, agent_name, ...)
RecordInteraction(session_id, agent_name, processing_time_ms) ==
    /\ now' = ClockAfter(now, "us")
    /\ session_manager' =
          record_agent_interaction(session_manager, session_id, agent_name,
                                   processing_time_ms, now')
    /\ SessionCall([op |-> "record", session_id |-> session_id,
                    where |-> Where(session_manager, session_id),
                    result |-> record_agent_interaction_result(session_manager,
                                                               session_id, agent_name)])

\* await session_manager.end_session(session_id, status)
EndSession(session_id, status) ==
    /\ now' = ClockAfter(now, "us")
    /\ session_manager' = end_session(session_manager, session_id, status, now')
    /\ SessionCall([op |-> "end", session_id |-> session_id,
                    where |-> Where(session_manager, session_id),
                    result |-> end_session_result(session_manager, session_id)])

\* d = await session_manager.get_session(session_id), which hands out the
\* stored dict, and then d[field] = 'not a timestamp' in the caller
OverwriteTimestamp(session_id, field) ==
    /\ Where(session_manager, session_id) # "none"
    /\ now' = ClockAfter(now, "us")
    /\ session_manager' =
          LET got == get_session(session_manager, session_id, now')
          IN WithSession(got, session_id,
                         [Found(got, session_id) EXCEPT ![field] = NotATimestamp])
    /\ SessionCall([op |-> "overwrite", session_id |-> session_id,
                    where |-> Where(session_manager, session_id)])

\* the ids a scan lists as expired; none where its first loop raises
Listed(sm, current_time) ==
    IF scan_raises(sm) THEN {} ELSE expired_sessions(sm, current_time)

\* a _cleanup_loop whose task ends when a scan raises
ReaperCycleFailFast(step) ==
    /\ session_manager.live_loops > 0
    /\ now' = (IF step = "none" THEN now ELSE ClockAfter(now, step))
    /\ session_manager' =
          [cleanup_expired_sessions(session_manager, now') EXCEPT
              !.live_loops =
                  IF cleanup_expired_sessions_result(session_manager, now') = "raised"
                  THEN @ - 1 ELSE @]
    /\ SessionCall([op |-> IF cleanup_expired_sessions_result(session_manager, now')
                              = "raised"
                           THEN "reaper_raised" ELSE "reaper",
                    previous |-> api.last.op,
                    expired |-> Listed(session_manager, now')])

\* a _cleanup_loop task wakes from its sleep and scans: lines 300-307.  The
\* clock may not have moved since it was last read.  An exception of the
\* scan, from its first loop or from an end_session call of its second, is
\* logged at line 307 and the task goes back to its sleep.
ReaperCycle(step) ==
    /\ session_manager.live_loops > 0
    /\ now' = (IF step = "none" THEN now ELSE ClockAfter(now, step))
    /\ session_manager' = cleanup_expired_sessions(session_manager, now')
    /\ SessionCall([op |-> IF cleanup_expired_sessions_result(session_manager, now')
                              = "raised"
                           THEN "reaper_raised" ELSE "reaper",
                    previous |-> api.last.op,
                    expired |-> Listed(session_manager, now')])

\* nothing is called for session_timeout_minutes
TimePasses ==
    /\ now' = [now EXCEPT !.sec = @ + session_manager.session_timeout_minutes
                                          * SecondsPerMinute]
    /\ UNCHANGED session_manager
    /\ SessionCall([op |-> "wait"])

NextSessions ==
    \/ SessionStart
    \/ SessionStop
    \/ SessionStopResume
    \/ \E c \in Companies : CreateSession(c)
    \/ \E id \in SessionIds : GetSession(id)
    \/ \E id \in SessionIds : GetSessionMetrics(id)
    \/ \E c \in Companies, wt \in WorkflowTypes : GetWorkflowSessions(c, wt)
    \/ \E id \in SessionIds, u \in ContextUpdates : UpdateContext(id, u)
    \/ \E id \in SessionIds, a \in AgentNames, pt \in ProcessingTimes :
          RecordInteraction(id, a, pt)
    \/ \E id \in SessionIds, st \in EndStatuses : EndSession(id, st)
    \/ \E id \in SessionIds, field \in {"created_at", "last_activity"} :
          OverwriteTimestamp(id, field)
    \/ \E step \in {"none", "us"} : ReaperCycle(step)
    \/ TimePasses

\* a new session manager with the default timeout, in a module where random
\* is bound or is not; the bank and the orchestrator as constructed
InitSessions ==
    /\ memory_bank = NewBank(DefaultMaxEntries)
    /\ now = StartTime
    /\ api = [ops |-> 0, last |-> NoCall]
    /\ has_memory_bank = TRUE
    /\ workflow_history = <<>>
    /\ run = <<>>
    /\ agents = NewAgents(DefaultRegulations)
    /\ \E random_defined \in BOOLEAN :
          session_manager = NewSessionManager(DefaultSessionTimeoutMinutes,
                                              DefaultMaxSessions, random_defined)

SpecSessions == InitSessions /\ [][NextSessions]_vars

\* SessionManager(max_sessions=SmallMaxSessions), new
InitCapped ==
    /\ memory_bank = NewBank(DefaultMaxEntries)
    /\ now = StartTime
    /\ api = [ops |-> 0, last |-> NoCall]
    /\ has_memory_bank = TRUE
    /\ workflow_history = <<>>
    /\ run = <<>>
    /\ agents = NewAgents(DefaultRegulations)
    /\ \E random_defined \in BOOLEAN :
          session_manager = NewSessionManager(DefaultSessionTimeoutMinutes,
                                              SmallMaxSessions, random_defined)

SpecCapped == InitCapped /\ [][NextSessions]_vars

\* a session manager after start() and one or two create_session calls
InitStarted ==
    /\ memory_bank = NewBank(DefaultMaxEntries)
    /\ now = StartTime
    /\ api = [ops |-> 0, last |-> NoCall]
    /\ has_memory_bank = TRUE
    /\ workflow_history = <<>>
    /\ run = <<>>
    /\ agents = NewAgents(DefaultRegulations)
    /\ \E random_defined \in BOOLEAN, created \in 1..2 :
          session_manager =
              [NewSessionManager(DefaultSessionTimeoutMinutes, DefaultMaxSessions,
                                 random_defined)
                  EXCEPT !.cleanup_task = "running",
                         !.live_loops = 1,
                         !.uuids = created,
                         !.active_sessions =
                             [id \in 1..created |-> NewSession(id, "c1", StartTime)]]

\* the calls on the sessions of a started manager: reads, writes, end
\* requests, reaper cycles, the passing of time and stop()
NextStarted ==
    \/ SessionStop
    \/ SessionStopResume
    \/ \E id \in SessionIds : GetSession(id)
    \/ \E id \in SessionIds : GetSessionMetrics(id)
    \/ \E wt \in {NoWorkflowType, "risk_review"} : GetWorkflowSessions("c1", wt)
    \/ \E id \in SessionIds : UpdateContext(id, [workflow_progress |-> PyInt(50)])
    \/ \E id \in SessionIds : UpdateContext(id, [agent_interactions |-> PyInt(5)])
    \/ \E id \in SessionIds, pt \in ProcessingTimes :
          RecordInteraction(id, "custom_agent", pt)
    \/ \E id \in SessionIds, st \in EndStatuses : EndSession(id, st)
    \/ \E id \in SessionIds : OverwriteTimestamp(id, "last_activity")
    \/ \E step \in {"none", "us"} : ReaperCycle(step)
    \/ TimePasses

SpecStarted == InitStarted /\ [][NextStarted]_vars

----------------------------------------------------------------------------
(* Orchestrator: execute_compliance_check.  A step is one callback of the     *)
(* event loop: a call or a task runs from one suspension to the next.  A      *)
(* stage either returns what its code computes or raises (the stages are      *)
(* replaceable: the tests patch them with side effects and canned return      *)
(* values).  The two branches of line 59 are tasks: the end of a task, the    *)
(* callback that tells the gather of it and the resumption of the call are    *)
(* three callbacks, and steps of other calls can come between them.  The      *)
(* later stages are awaited directly: the call resumes in the callback in     *)
(* which the stage ends.                                                      *)

StageOutcomes == {"ok", "raised"}

\* "bare": a report without 'executive_summary', such as the
\* {'report_id': 'TEST-001'} of test_orchestrator_workflow
ReportOutcomes == {"ok", "bare", "raised"}

\* RiskAssessmentAgent._calculate_risk_score: max(0, 100 - compliance_score)
calculate_risk_score(compliance_score) ==
    IF 100 - compliance_score > 0 THEN 100 - compliance_score ELSE 0

\* the keys of the dict that assess_risk builds at lines 33-41 and returns
risk_assessment_keys ==
    {"overall_risk_score", "risk_breakdown", "risk_factors", "mitigation_strategies",
     "compliance_health", "predicted_risks", "timestamp"}

\* RiskAssessmentAgent._get_risk_level
get_risk_level(score) ==
    IF score >= 90 THEN "low"
    ELSE IF score >= 75 THEN "medium"
    ELSE IF score >= 60 THEN "high" ELSE "critical"

\* an analysis_results dict as assess_risk reads it; has_overall_score FALSE
\* stands for a dict without the key
AnalysisResults(has_overall_score, overall_score, regulation_scores) ==
    [overall_score |-> overall_score,
     regulation_scores |-> regulation_scores,
     has_overall_score |-> has_overall_score]

\* RiskAssessmentAgent.assess_risk: the dict returned, its keys, its score
\* and its breakdown
assess_risk(analysis_results) ==
    LET overall_score == IF analysis_results.has_overall_score
                         THEN analysis_results.overall_score ELSE 0
    IN [overall_risk_score |-> calculate_risk_score(overall_score),
        keys |-> risk_assessment_keys,
        risk_breakdown |->
            [regulation \in DOMAIN analysis_results.regulation_scores |->
                [score |-> analysis_results.regulation_scores[regulation],
                 risk_level |->
                    get_risk_level(analysis_results.regulation_scores[regulation])]]]

\* ReportGeneratorAgent.generate_report, as far as the bank and the
\* orchestrator read the report; an orchestrated analysis carries no gaps
generate_report(overall_score, risk_score) ==
    [has_summary |-> TRUE,
     overall_compliance_score |-> overall_score,
     overall_risk_score |-> risk_score,
     gap_breakdown |-> <<>>]

BareReport ==
    [has_summary |-> FALSE,
     overall_compliance_score |-> 0,
     overall_risk_score |-> 0,
     gap_breakdown |-> <<>>]

\* (datetime.now() - workflow_start).total_seconds(), in microseconds
Duration(start, t) == (t.sec - start.sec) * MicrosPerSecond + (t.us - start.us)

\* f"WF-{workflow_start.strftime('%Y%m%d-%H%M%S')}"
WorkflowId(workflow_start) == strftime_seconds(workflow_start)

\* the record of lines 95-103; error "" stands for the absent key
CompletedRecord(rec, t) ==
    [workflow_id |-> WorkflowId(rec.workflow_start),
     company_id |-> rec.company_id,
     duration |-> Duration(rec.workflow_start, t),
     final_score |-> rec.overall_score,
     risk_score |-> rec.risk_score,
     error |-> "",
     timestamp |-> rec.workflow_start,
     status |-> "completed"]

\* the record of lines 120-127; the scores -1 stand for the absent keys
FailedRecord(rec, err, t) ==
    [workflow_id |-> WorkflowId(rec.workflow_start),
     company_id |-> rec.company_id,
     duration |-> Duration(rec.workflow_start, t),
     final_score |-> -1,
     risk_score |-> -1,
     error |-> err,
     timestamp |-> rec.workflow_start,
     status |-> "failed"]

\* the two tasks that line 59 gathers
Branches == {"monitor", "collect"}

\* str(e) of the exception a branch raises
ErrorOf(branch) == IF branch = "monitor" THEN "monitor_error" ELSE "collect_error"

\* a call at its first await, line 59: both tasks created.  callbacks: the
\* ended tasks whose completion the gather has yet to be told of, in the
\* order they ended; notified: the tasks the gather knows to have returned;
\* gather: the future the call is suspended on, "pending", holding the
\* "result", or holding the text of the exception it was set to.
NewRun(company_id, t) ==
    [company_id |-> company_id,
     workflow_start |-> t,
     pc |-> "collecting",
     monitor |-> "running",
     collect |-> "running",
     callbacks |-> <<>>,
     notified |-> {},
     gather |-> "pending",
     analyze |-> "none",
     risk |-> "none",
     started |-> {"monitor", "collect"},
     regulatory_data |-> [keys |-> {}, succeeded |-> {}],
     succeeded |-> {},
     regulation_scores |-> [k \in {} |-> 0],
     overall_score |-> -1,
     risk_score |-> -1,
     risk_assessment_keys |-> {},
     report |-> "none",
     final_report |-> BareReport,
     store |-> "none",
     stored_serial |-> 0,
     error |-> "",
     ended |-> NoTime]

\* an except block that re-raises without recording the failure
RaiseUnrecorded(r, rec, err) ==
    /\ now' = ClockAfter(now, "us")
    /\ UNCHANGED workflow_history
    /\ run' = [run EXCEPT ![r] = [rec EXCEPT !.pc = "raised", !.error = err, !.ended = now']]

\* the except block, lines 117-130: read the clock, record the failure,
\* re-raise
Raise(r, rec, err) ==
    /\ now' = ClockAfter(now, "us")
    /\ workflow_history' = Append(workflow_history, FailedRecord(rec, err, now'))
    /\ run' = [run EXCEPT ![r] = [rec EXCEPT !.pc = "raised", !.error = err, !.ended = now']]

\* execute_compliance_check is called: lines 46-59
StartRun(company_id, step) ==
    /\ Len(run) < MaxRuns
    /\ now' = ClockAfter(now, step)
    /\ run' = Append(run, NewRun(company_id, now'))
    /\ UNCHANGED <<memory_bank, api, has_memory_bank, session_manager, workflow_history, agents>>

\* the branch reads the clock in its last step: gather_regulatory_data sets
\* last_check = datetime.now() at line 56 before it returns; a stand-in for it
\* does not, and collect_company_data never does
ReadsClock(branch, outcome) ==
    branch = "monitor" /\ outcome = "ok" /\ ~agents.monitor.patched

\* the agents after a branch task has ended
AfterBranch(branch, outcome, t) ==
    IF ReadsClock(branch, outcome)
    THEN [agents EXCEPT !.monitor.last_check = t]
    ELSE agents

\* gather_regulatory_data collects the exceptions of its fetches and has no
\* statement that raises: a monitor branch that raises is a stand-in
CanEnd(branch, outcome) ==
    (branch = "monitor" /\ outcome = "raised") => agents.monitor.patched

\* the regulations a dataset reports with status success
Succeeded(dataset) ==
    {name \in DOMAIN dataset.regulatory_data :
        dataset.regulatory_data[name].status = "success"}

\* the call after a branch task has ended.  regulatory_data is the result of
\* a monitor task that returned, as far as the call goes on to use it: its
\* top-level keys and the regulations it reports with status success.
Returned(rec, branch, outcome, result) ==
    IF branch = "monitor" /\ outcome = "ok"
    THEN [rec EXCEPT !.monitor = outcome,
                     !.regulatory_data = [keys |-> DOMAIN WholeResult(result),
                                          succeeded |-> Succeeded(result)]]
    ELSE [rec EXCEPT ![branch] = outcome]

\* a branch task of line 52 or 55 ends, returning its result or raising.  The
\* event loop schedules the callback that tells the gather of line 59; the
\* call stays suspended.
BranchDone(r, branch, outcome, result) ==
    /\ run[r][branch] = "running"
    /\ CanEnd(branch, outcome)
    /\ now' = (IF ReadsClock(branch, outcome) THEN ClockAfter(now, "us") ELSE now)
    /\ agents' = AfterBranch(branch, outcome, now')
    /\ run' = [run EXCEPT ![r] = [Returned(run[r], branch, outcome, result) EXCEPT
                                     !.callbacks = Append(@, branch)]]
    /\ UNCHANGED <<memory_bank, api, has_memory_bank, session_manager, workflow_history>>

\* a gather that collects exceptions as results (return_exceptions=True): it
\* holds its result once it has been told of both tasks, however they ended
GatherDoneCallbackTolerant(r) ==
    /\ run[r].callbacks # <<>>
    /\ LET branch == Head(run[r].callbacks)
           rec == [run[r] EXCEPT !.callbacks = Tail(@), !.notified = @ \cup {branch}]
       IN run' = [run EXCEPT ![r] =
                     IF rec.gather = "pending" /\ rec.notified = Branches
                     THEN [rec EXCEPT !.gather = "result"]
                     ELSE rec]
    /\ UNCHANGED <<memory_bank, now, api, has_memory_bank, session_manager, workflow_history,
                   agents>>

\* a fan-in that holds its result as soon as it is told of one task that
\* returned
GatherDoneCallbackFirstCompleted(r) ==
    /\ run[r].callbacks # <<>>
    /\ LET branch == Head(run[r].callbacks)
           rec == [run[r] EXCEPT !.callbacks = Tail(@)]
       IN run' = [run EXCEPT ![r] =
                     IF rec.gather # "pending" THEN rec
                     ELSE IF rec[branch] = "raised"
                     THEN [rec EXCEPT !.gather = ErrorOf(branch)]
                     ELSE [rec EXCEPT !.notified = @ \cup {branch}, !.gather = "result"]]
    /\ UNCHANGED <<memory_bank, now, api, has_memory_bank, session_manager, workflow_history,
                   agents>>

\* the gather of line 59 is told that a task has ended, the tasks in the
\* order they ended: one event-loop callback after the task's last step.  The
\* gather is set to the exception of the first task it learns to have raised,
\* and leaves the other task running; it is set to the results once it has
\* learnt that both have returned; once set it stays as it is.
GatherDoneCallback(r) ==
    /\ run[r].callbacks # <<>>
    /\ LET branch == Head(run[r].callbacks)
           rec == [run[r] EXCEPT !.callbacks = Tail(@)]
       IN run' = [run EXCEPT ![r] =
                     IF rec.gather # "pending" THEN rec
                     ELSE IF rec[branch] = "raised"
                     THEN [rec EXCEPT !.gather = ErrorOf(branch)]
                     ELSE IF rec.notified \cup {branch} = Branches
                     THEN [rec EXCEPT !.notified = Branches, !.gather = "result"]
                     ELSE [rec EXCEPT !.notified = @ \cup {branch}]]
    /\ UNCHANGED <<memory_bank, now, api, has_memory_bank, session_manager, workflow_history,
                   agents>>

\* the call resumes from the await of line 59, one event-loop callback after
\* the gather was set: with the results it goes on to line 67 and starts the
\* scoring, with an exception it enters the except block of line 117
GatherResume(r) ==
    /\ run[r].pc = "collecting"
    /\ run[r].gather # "pending"
    /\ IF run[r].gather = "result"
       THEN /\ now' = now
            /\ run' = [run EXCEPT ![r].pc = "analyzing",
                                  ![r].started = @ \cup {"analyze"}]
            /\ UNCHANGED workflow_history
       ELSE Raise(r, run[r], run[r].gather)
    /\ UNCHANGED <<memory_bank, api, has_memory_bank, session_manager, agents>>

\* how the fetches of one gather_regulatory_data call end, in the order of
\* regulatory_sources: every fetch returns its data; the first returns, the
\* body of the second raises and the third raises itself, and so on in
\* turn; every fetch raises
FetchPatterns == {"all_ok", "mixed", "all_raised"}

FetchesOf(pattern, n) ==
    [i \in 1..n |->
        IF pattern = "all_ok" THEN "ok"
        ELSE IF pattern = "all_raised" THEN "raised"
        ELSE <<"ok", "caught", "raised">>[((i - 1) % 3) + 1]]

\* what the monitor branch returns to line 59: the dataset that
\* gather_regulatory_data makes of the results of its fetches, or what the
\* stand-in in its place returns
GatheredData(fetches, t) ==
    LET sources == agents.monitor.regulatory_sources
    IN IF agents.monitor.patched THEN StandInDataset
       ELSE regulatory_dataset(sources,
                               [i \in 1..Len(sources) |->
                                   fetch_regulation_data(sources[i], fetches[i])],
                               t)

\* the task of monitor.gather_regulatory_data() ends, its fetches having
\* ended as the pattern says
MonitorDone(r, outcome, pattern) ==
    BranchDone(r, "monitor", outcome,
               GatheredData(FetchesOf(pattern, Len(agents.monitor.regulatory_sources)), now'))

\* the task of analyzer.collect_company_data(company_data) ends
CollectDone(r, outcome) == BranchDone(r, "collect", outcome, NoDataset)

\* the random.randint(65, 98) of line 47, were it drawn for a key
DrawnScores(keys) == [k \in keys |-> RegulationScoreMid]

\* analyzer.analyze_compliance finishes, lines 67-73.  The orchestrator hands
\* it the whole result of the monitor branch, whose top-level items carry no
\* 'status': no regulation is scored and overall_score stays the fallback.
\* succeeded keeps the regulations that the argument reports with status
\* success.
AnalyzeDone(r, outcome, score) ==
    /\ run[r].pc = "analyzing"
    /\ IF outcome = "raised"
       THEN Raise(r, [run[r] EXCEPT !.analyze = "raised"], "analyze_error")
       ELSE /\ now' = now
            /\ \A analysis_results \in
                   {analyze_compliance([key \in run[r].regulatory_data.keys |->
                                           [status |-> "none"]],
                                       DrawnScores(run[r].regulatory_data.keys),
                                       score)} :
                   run' = [run EXCEPT ![r].pc = "assessing",
                                      ![r].analyze = "ok",
                                      ![r].succeeded = run[r].regulatory_data.succeeded,
                                      ![r].regulation_scores =
                                          analysis_results.regulation_scores,
                                      ![r].overall_score = analysis_results.overall_score,
                                      ![r].started = @ \cup {"risk"}]
            /\ UNCHANGED workflow_history
    /\ UNCHANGED <<memory_bank, api, has_memory_bank, session_manager, agents>>

\* risk_assessor.assess_risk finishes, lines 73-81
RiskDone(r, outcome) ==
    /\ run[r].pc = "assessing"
    /\ IF outcome = "raised"
       THEN Raise(r, [run[r] EXCEPT !.risk = "raised"], "risk_error")
       ELSE /\ now' = now
            /\ run' = [run EXCEPT ![r].pc = "reporting",
                                  ![r].risk = "ok",
                                  ![r].risk_score = calculate_risk_score(run[r].overall_score),
                                  ![r].risk_assessment_keys =
                                      assess_risk(AnalysisResults(TRUE, run[r].overall_score,
                                                                  run[r].regulation_scores)).keys,
                                  ![r].started = @ \cup {"report"}]
            /\ UNCHANGED workflow_history
    /\ UNCHANGED <<memory_bank, api, has_memory_bank, session_manager, agents>>

\* reporter.generate_report finishes; lines 81-115 follow without an await
\* that suspends: the store, the completed record, the log line, the return.
\* store_outcome "raised": the bank's store raises before it changes the bank.
ReportDone(r, outcome, store_outcome, step) ==
    /\ run[r].pc = "reporting"
    /\ IF outcome = "raised"
       THEN /\ store_outcome = "ok" /\ step = "us"
            /\ Raise(r, [run[r] EXCEPT !.report = "raised"], "report_error")
            /\ UNCHANGED memory_bank
       ELSE LET final_report == IF outcome = "ok"
                                THEN generate_report(run[r].overall_score, run[r].risk_score)
                                ELSE BareReport
                rec == [run[r] EXCEPT !.report = outcome, !.final_report = final_report,
                                      !.started = @ \cup {"store"}]
            IN IF ~has_memory_bank
               THEN /\ store_outcome = "ok" /\ step = "us"
                    /\ now' = ClockAfter(now, step)
                    /\ UNCHANGED memory_bank
                    /\ LET done == [rec EXCEPT !.store = "skipped", !.started = run[r].started,
                                               !.ended = now']
                       IN IF outcome = "bare"
                          THEN /\ workflow_history' =
                                     workflow_history \o <<CompletedRecord(done, now'),
                                                           FailedRecord(done, "KeyError", now')>>
                               /\ run' = [run EXCEPT ![r] = [done EXCEPT !.pc = "raised",
                                                                        !.error = "KeyError"]]
                          ELSE /\ workflow_history' =
                                     Append(workflow_history, CompletedRecord(done, now'))
                               /\ run' = [run EXCEPT ![r] = [done EXCEPT !.pc = "returned"]]
               ELSE IF store_outcome = "raised"
               THEN /\ step = "us"
                    /\ Raise(r, [rec EXCEPT !.store = "raised"], "store_error")
                    /\ UNCHANGED memory_bank
               ELSE /\ now' = ClockAfter(now, step)
                    /\ memory_bank' = store_compliance_check(memory_bank, run[r].company_id,
                                                              final_report, now')
                    /\ LET done == [rec EXCEPT !.store = "ok",
                                               !.stored_serial = metrics.total_stored + 1,
                                               !.ended = now']
                       IN IF outcome = "bare"
                          THEN /\ workflow_history' =
                                     workflow_history \o <<CompletedRecord(done, now'),
                                                           FailedRecord(done, "KeyError", now')>>
                               /\ run' = [run EXCEPT ![r] = [done EXCEPT !.pc = "raised",
                                                                        !.error = "KeyError"]]
                          ELSE /\ workflow_history' =
                                     Append(workflow_history, CompletedRecord(done, now'))
                               /\ run' = [run EXCEPT ![r] = [done EXCEPT !.pc = "returned"]]
    /\ UNCHANGED <<api, has_memory_bank, session_manager, agents>>

Next ==
    \/ \E c \in Companies : StartRun(c, "us")
    \/ \E r \in 1..Len(run), o \in StageOutcomes : MonitorDone(r, o, "all_ok")
    \/ \E r \in 1..Len(run), o \in StageOutcomes : CollectDone(r, o)
    \/ \E r \in 1..Len(run) : GatherDoneCallback(r)
    \/ \E r \in 1..Len(run) : GatherResume(r)
    \/ \E r \in 1..Len(run), o \in StageOutcomes,
          score \in {FallbackScoreLow, FallbackScoreHigh} : AnalyzeDone(r, o, score)
    \/ \E r \in 1..Len(run), o \in StageOutcomes : RiskDone(r, o)
    \/ \E r \in 1..Len(run), o \in ReportOutcomes, so \in StageOutcomes :
          ReportDone(r, o, so, "us")

\* an orchestrator built on a new bank, or without a bank; its monitor as
\* constructed, or with a stand-in in the place of gather_regulatory_data
Init ==
    /\ InitBank(NewBankChoices)
    /\ has_memory_bank \in BOOLEAN
    /\ workflow_history = <<>>
    /\ run = <<>>
    /\ session_manager = NewSessionManager(DefaultSessionTimeoutMinutes,
                                           DefaultMaxSessions, FALSE)
    /\ \E patched \in BOOLEAN :
          agents = [NewAgents(DefaultRegulations) EXCEPT !.monitor.patched = patched]

Spec == Init /\ [][Next]_vars

\* a callback the event loop has scheduled for the r-th call: the gather is
\* told of a task that ended, or the call resumes from a gather that is set
GatherStep(r) ==
    /\ r \in 1..Len(run)
    /\ GatherDoneCallback(r) \/ GatherResume(r)

\* the event loop runs every callback it has scheduled
SpecFair ==
    /\ Spec
    /\ \A r \in 1..MaxRuns : WF_vars(GatherStep(r))

----------------------------------------------------------------------------
(* The orchestrator with the stages of the repository, none of which raises, *)
(* on a bank that may already hold one company's history.                    *)

NextStages ==
    \/ \E c \in Companies : StartRun(c, "us")
    \/ \E r \in 1..Len(run) : MonitorDone(r, "ok", "all_ok")
    \/ \E r \in 1..Len(run) : CollectDone(r, "ok")
    \/ \E r \in 1..Len(run) : GatherDoneCallback(r)
    \/ \E r \in 1..Len(run) : GatherResume(r)
    \/ \E r \in 1..Len(run), score \in {FallbackScoreLow, FallbackScoreHigh} :
          AnalyzeDone(r, "ok", score)
    \/ \E r \in 1..Len(run) : RiskDone(r, "ok")
    \/ \E r \in 1..Len(run), step \in ClockSteps : ReportDone(r, "ok", "ok", step)

InitLoaded ==
    /\ InitBank(LoadedBankChoices)
    /\ has_memory_bank = TRUE
    /\ InitOrchestrator

SpecLoaded == InitLoaded /\ [][NextStages]_vars

----------------------------------------------------------------------------
(* The orchestrator with stages that return, on a new bank, its monitor as   *)
(* constructed or with a stand-in, the fetches of a gather ending in any of  *)
(* the patterns.                                                             *)

NextGathered ==
    \/ \E c \in Companies : StartRun(c, "us")
    \/ \E r \in 1..Len(run), pattern \in FetchPatterns : MonitorDone(r, "ok", pattern)
    \/ \E r \in 1..Len(run) : CollectDone(r, "ok")
    \/ \E r \in 1..Len(run) : GatherDoneCallback(r)
    \/ \E r \in 1..Len(run) : GatherResume(r)
    \/ \E r \in 1..Len(run), score \in {FallbackScoreLow, FallbackScoreHigh} :
          AnalyzeDone(r, "ok", score)
    \/ \E r \in 1..Len(run) : RiskDone(r, "ok")
    \/ \E r \in 1..Len(run) : ReportDone(r, "ok", "ok", "us")

InitGathered ==
    /\ InitBank(NewBankChoices)
    /\ has_memory_bank = TRUE
    /\ workflow_history = <<>>
    /\ run = <<>>
    /\ session_manager = NewSessionManager(DefaultSessionTimeoutMinutes,
                                           DefaultMaxSessions, FALSE)
    /\ \E patched \in BOOLEAN :
          agents = [NewAgents(DefaultRegulations) EXCEPT !.monitor.patched = patched]

SpecGathered == InitGathered /\ [][NextGathered]_vars

----------------------------------------------------------------------------
(* Lookups: ComplianceMemoryBank.get_industry_benchmarks and the tools        *)
(* regulation_database_tool and compliance_framework_tool.  A string is its   *)
(* letters (written in lower case) and the case it is written in.             *)

Text(letters, case) == [letters |-> letters, case |-> case]

Cases == {"lower", "upper", "mixed"}

\* str.upper()
upper(text) == [text EXCEPT !.case = "upper"]

\* str.lower()
lower(text) == [text EXCEPT !.case = "lower"]

\* the names asked for: the keys of the tables and a name in none of them
RegulationNames == {"gdpr", "hipaa", "sox", "unknown"}

FrameworkNames == {"nist_csf", "iso_27001", "cobit", "unknown"}

IndustryNames == {"technology", "healthcare", "finance", "unknown"}

\* list(regulation_db.keys())
regulation_db_keys ==
    <<Text("gdpr", "upper"), Text("hipaa", "upper"), Text("sox", "upper")>>

\* list(frameworks.keys())
frameworks_keys ==
    <<Text("nist_csf", "upper"), Text("iso_27001", "upper"), Text("cobit", "upper")>>

\* the benchmarks table of get_industry_benchmarks: industry -> regulation ->
\* average_score
benchmarks ==
    [i \in {Text("technology", "lower"), Text("healthcare", "lower"),
            Text("finance", "lower")} |->
        IF i.letters = "technology"
        THEN [r \in {Text("gdpr", "upper"), Text("sox", "upper")} |->
                 IF r.letters = "gdpr" THEN 82 ELSE 88]
        ELSE IF i.letters = "healthcare"
        THEN [r \in {Text("hipaa", "upper"), Text("gdpr", "upper")} |->
                 IF r.letters = "hipaa" THEN 85 ELSE 78]
        ELSE [r \in {Text("sox", "upper"), Text("gdpr", "upper")} |->
                 IF r.letters = "sox" THEN 90 ELSE 80]]

Range(seq) == {seq[i] : i \in 1..Len(seq)}

\* what a lookup returns: the data of a key, the dict with 'error' and the
\* list of the keys, or None
Data(key, value) == [kind |-> "data", key |-> key, value |-> value, available |-> <<>>]

NotFound(keys) ==
    [kind |-> "not_found", key |-> Text("", "lower"), value |-> 0, available |-> keys]

None == [kind |-> "none", key |-> Text("", "lower"), value |-> 0, available |-> <<>>]

\* the lookup of both tools: key = name.upper(); the entry of the key, or the
\* error dict with the keys of the table
table_lookup(name, keys) ==
    IF upper(name) \in Range(keys) THEN Data(upper(name), 0) ELSE NotFound(keys)

\* regulation_database_tool(regulation_name)
regulation_database_tool(regulation_name) ==
    table_lookup(regulation_name, regulation_db_keys)

\* compliance_framework_tool(framework_name)
compliance_framework_tool(framework_name) ==
    table_lookup(framework_name, frameworks_keys)

\* get_industry_benchmarks(industry, regulation):
\* benchmarks.get(industry.lower(), {}).get(regulation.upper())
get_industry_benchmarks(industry, regulation) ==
    IF lower(industry) \in DOMAIN benchmarks
    THEN IF upper(regulation) \in DOMAIN benchmarks[lower(industry)]
         THEN Data(upper(regulation), benchmarks[lower(industry)][upper(regulation)])
         ELSE None
    ELSE None

\* one lookup is made, its result kept
Lookup(last) ==
    /\ api.ops < MaxOps
    /\ now' = ClockAfter(now, "us")
    /\ api' = [ops |-> api.ops + 1, last |-> last]
    /\ UNCHANGED <<memory_bank, has_memory_bank, session_manager, workflow_history, run, agents>>

\* await regulation_database_tool(regulation_name)
RegulationLookup(regulation_name) ==
    Lookup([result |-> regulation_database_tool(regulation_name),
            name |-> regulation_name, op |-> "regulation"])

\* await compliance_framework_tool(framework_name)
FrameworkLookup(framework_name) ==
    Lookup([result |-> compliance_framework_tool(framework_name),
            name |-> framework_name, op |-> "framework"])

\* await memory_bank.get_industry_benchmarks(industry, regulation)
BenchmarkLookup(industry, regulation) ==
    Lookup([result |-> get_industry_benchmarks(industry, regulation),
            name |-> regulation, op |-> "benchmark", industry |-> industry])

NextLookups ==
    \/ \E n \in RegulationNames, c \in Cases : RegulationLookup(Text(n, c))
    \/ \E n \in FrameworkNames, c \in Cases : FrameworkLookup(Text(n, c))
    \/ \E i \in IndustryNames, n \in RegulationNames, ci, cn \in Cases :
          BenchmarkLookup(Text(i, ci), Text(n, cn))

InitLookups ==
    /\ InitBank(NewBankChoices)
    /\ has_memory_bank = TRUE
    /\ InitOrchestrator

SpecLookups == InitLookups /\ [][NextLookups]_vars

----------------------------------------------------------------------------
(* Monitor: RegulationMonitorAgent.gather_regulatory_data, called directly. *)
(* The call creates one fetch task per configured regulation and is         *)
(* suspended at line 46 until the gather has been told of the end of every  *)
(* task and has waked the call.                                             *)

\* the regulations a monitor is configured with: those of the sample
\* configurations, two with one outside the known three, two written in
\* mixed case, none
RegulationConfigs == {DefaultRegulations, <<"GDPR", "CCPA">>, <<"gDPR", "Hipaa">>, <<>>}

RunningTask == [kind |-> "running", regulation |-> "", error |-> NoError, content |-> "none"]

\* await monitor.gather_regulatory_data(): lines 34-46.  With no regulation
\* configured the gather of line 46 is done when it is made, and the call
\* returns without being suspended.
GatherStart ==
    /\ api.ops < MaxOps
    /\ ~agents.monitor.gathering
    /\ LET n == Len(agents.monitor.regulatory_sources)
       IN IF n = 0
          THEN /\ now' = ClockAfter(now, "us")
               /\ agents' = [agents EXCEPT !.monitor.tasks = <<>>,
                                           !.monitor.last_check = now']
               /\ api' = [ops |-> api.ops + 1,
                          last |-> [op |-> "gather", outcome |-> "returned",
                                    result |-> regulatory_dataset(<<>>, <<>>, now')]]
          ELSE /\ now' = now
               /\ agents' = [agents EXCEPT !.monitor.gathering = TRUE,
                                           !.monitor.tasks = [i \in 1..n |-> RunningTask],
                                           !.monitor.callbacks = <<>>,
                                           !.monitor.notified = {},
                                           !.monitor.gather = "pending"]
               /\ api' = [ops |-> api.ops + 1,
                          last |-> [op |-> "gather", outcome |-> "pending",
                                    result |-> NoDataset]]
    /\ UNCHANGED <<memory_bank, has_memory_bank, session_manager, workflow_history, run>>

\* the fetch task of the i-th regulation ends, returning its dict or raising:
\* lines 67-121, from the end of the sleep of line 69 on, where the task reads
\* the clock at line 73.  The event loop schedules the callback that tells
\* the gather of line 46; the call stays suspended.
FetchDone(i, outcome) ==
    /\ agents.monitor.gathering
    /\ i \in 1..Len(agents.monitor.tasks)
    /\ agents.monitor.tasks[i] = RunningTask
    /\ now' = ClockAfter(now, "us")
    /\ agents' = [agents EXCEPT
                     !.monitor.tasks[i] =
                         fetch_regulation_data(agents.monitor.regulatory_sources[i], outcome),
                     !.monitor.callbacks = Append(@, i)]
    /\ UNCHANGED <<memory_bank, api, has_memory_bank, session_manager, workflow_history, run>>

\* a gather without return_exceptions: it is set to the exception of the
\* first fetch it learns to have raised, whatever the siblings do
FetchDoneCallbackFailFast ==
    /\ agents.monitor.callbacks # <<>>
    /\ LET i == Head(agents.monitor.callbacks)
           told == agents.monitor.notified \cup {i}
       IN agents' = [agents EXCEPT
                        !.monitor.callbacks = Tail(@),
                        !.monitor.notified = told,
                        !.monitor.gather =
                            IF @ # "pending" THEN @
                            ELSE IF agents.monitor.tasks[i].kind = "exception"
                            THEN "exception"
                            ELSE IF told = DOMAIN agents.monitor.tasks
                            THEN "result" ELSE @]
    /\ UNCHANGED <<memory_bank, now, api, has_memory_bank, session_manager, workflow_history,
                   run>>

\* the gather of line 46 (return_exceptions=True) is told that a fetch task
\* has ended, the tasks in the order they ended: one event-loop callback
\* after the task's last step.  An exception counts as a result; once the
\* gather has been told of every task it holds the results.
FetchDoneCallback ==
    /\ agents.monitor.callbacks # <<>>
    /\ LET i == Head(agents.monitor.callbacks)
           told == agents.monitor.notified \cup {i}
       IN agents' = [agents EXCEPT
                        !.monitor.callbacks = Tail(@),
                        !.monitor.notified = told,
                        !.monitor.gather =
                            IF told = DOMAIN agents.monitor.tasks THEN "result" ELSE @]
    /\ UNCHANGED <<memory_bank, now, api, has_memory_bank, session_manager, workflow_history,
                   run>>

\* the call resumes from the await of line 46, one event-loop callback after
\* the gather was set, and returns the dataset: lines 48-63.  A gather set to
\* an exception makes the await raise it.
GatherReturns ==
    /\ agents.monitor.gathering
    /\ agents.monitor.gather \notin {"none", "pending"}
    /\ IF agents.monitor.gather = "result"
       THEN /\ now' = ClockAfter(now, "us")
            /\ agents' = [agents EXCEPT !.monitor.gathering = FALSE,
                                        !.monitor.gather = "none",
                                        !.monitor.last_check = now']
            /\ api' = [api EXCEPT !.last =
                          [op |-> "gather", outcome |-> "returned",
                           result |-> regulatory_dataset(agents.monitor.regulatory_sources,
                                                         agents.monitor.tasks, now')]]
       ELSE /\ now' = now
            /\ agents' = [agents EXCEPT !.monitor.gathering = FALSE,
                                        !.monitor.gather = "none"]
            /\ api' = [api EXCEPT !.last = [op |-> "gather", outcome |-> "raised",
                                            result |-> NoDataset]]
    /\ UNCHANGED <<memory_bank, has_memory_bank, session_manager, workflow_history, run>>

NextMonitor ==
    \/ GatherStart
    \/ \E i \in 1..Len(DefaultRegulations), o \in FetchOutcomes : FetchDone(i, o)
    \/ FetchDoneCallback
    \/ GatherReturns

InitMonitor ==
    /\ InitBank(NewBankChoices)
    /\ has_memory_bank = TRUE
    /\ workflow_history = <<>>
    /\ run = <<>>
    /\ session_manager = NewSessionManager(DefaultSessionTimeoutMinutes,
                                           DefaultMaxSessions, FALSE)
    /\ \E regulatory_sources \in RegulationConfigs :
          agents = NewAgents(regulatory_sources)

SpecMonitor == InitMonitor /\ [][NextMonitor]_vars

----------------------------------------------------------------------------
(* Continuous monitoring: ComplianceOrchestrator.start_continuous_monitoring, *)
(* the monitoring_loop tasks it creates, and shutdown.                        *)

loops == agents.loops

Sleeps == {"polling_sleep", "backoff_sleep"}

\* await orchestrator.start_continuous_monitoring(): creates a task and binds
\* monitoring_task to it; a task created by an earlier call keeps running
StartMonitoring ==
    /\ Len(loops) < MaxStarts
    /\ agents' = [agents EXCEPT !.loops = Append(@, NewLoop),
                                !.monitoring_task = Len(loops) + 1]
    /\ UNCHANGED <<memory_bank, now, api, has_memory_bank, session_manager,
                   workflow_history, run>>

\* the event loop can run the task: it has not started, or the sleep it was
\* suspended in has ended
Ready(task) ==
    \/ task.pc = "created"
    \/ task.pc \in Sleeps /\ task.sleeping = 0

\* what one pass through lines 139-156 ends in: "returned" (the polling sleep
\* was started), "detect_raised" or "config_raised" (KeyError at line 155)
CheckOutcome(changes) ==
    IF changes.kind = "exception" THEN "detect_raised"
    ELSE IF ~agents.config_has_monitor THEN "config_raised"
    ELSE "returned"

\* a pass that ends the loop on an exception instead of backing off
CheckFailFast(i, changes) ==
    /\ i \in 1..Len(loops)
    /\ Ready(loops[i])
    /\ ~loops[i].cancel_requested
    /\ agents' = [agents EXCEPT !.loops[i] =
                     IF CheckOutcome(changes) = "returned"
                     THEN [@ EXCEPT !.pc = "polling_sleep",
                                    !.sleeping = DefaultPollingInterval]
                     ELSE [@ EXCEPT !.pc = "ended", !.outcome = "finished"]]
    /\ api' = [api EXCEPT !.last = [op |-> "detect", task |-> i,
                                    outcome |-> CheckOutcome(changes),
                                    changes |-> changes]]
    /\ UNCHANGED <<memory_bank, now, has_memory_bank, session_manager,
                   workflow_history, run>>

\* one step of the task, lines 137-163, from its start or from the sleep that
\* has ended to the next sleep: detect_regulatory_changes, which never
\* suspends, returns or raises, the changes are logged, the polling interval is
\* read from the configuration, and the task is suspended in the polling sleep
\* or, after an exception, in the back-off sleep of the handler
Check(i, changes) ==
    /\ i \in 1..Len(loops)
    /\ Ready(loops[i])
    /\ ~loops[i].cancel_requested
    /\ agents' = [agents EXCEPT !.loops[i] =
                     IF CheckOutcome(changes) = "returned"
                     THEN [@ EXCEPT !.pc = "polling_sleep",
                                    !.sleeping = DefaultPollingInterval]
                     ELSE [@ EXCEPT !.pc = "backoff_sleep",
                                    !.sleeping = BackoffSeconds]]
    /\ api' = [api EXCEPT !.last = [op |-> "detect", task |-> i,
                                    outcome |-> CheckOutcome(changes),
                                    changes |-> changes]]
    /\ UNCHANGED <<memory_bank, now, has_memory_bank, session_manager,
                   workflow_history, run>>

\* the delay of asyncio.sleep is over: the task, still suspended at the
\* await, is ready to go on
SleepElapses(i) ==
    /\ i \in 1..Len(loops)
    /\ loops[i].pc \in Sleeps
    /\ loops[i].sleeping > 0
    /\ ~loops[i].cancel_requested
    /\ agents' = [agents EXCEPT !.loops[i].sleeping = 0]
    /\ UNCHANGED <<memory_bank, now, api, has_memory_bank, session_manager,
                   workflow_history, run>>

\* task.cancel() on a task: nothing for a task that is done
Cancelled(task) ==
    IF task.pc = "ended" THEN task ELSE [task EXCEPT !.cancel_requested = TRUE]

\* CancelledError is thrown into the coroutine where it is suspended, whether
\* the sleep there is pending or has ended.  At the polling sleep of line 156,
\* inside the try, the handler of line 158 breaks and the coroutine returns;
\* at the back-off sleep of line 163, which is inside a handler, and before
\* the first step, it leaves the task.
CancelDelivered(i) ==
    /\ i \in 1..Len(loops)
    /\ loops[i].cancel_requested
    /\ loops[i].pc # "ended"
    /\ agents' = [agents EXCEPT !.loops[i] =
                     [pc |-> "ended", sleeping |-> 0, cancel_requested |-> FALSE,
                      outcome |-> IF loops[i].pc = "polling_sleep"
                                  THEN "finished" ELSE "cancelled"]]
    /\ UNCHANGED <<memory_bank, now, api, has_memory_bank, session_manager,
                   workflow_history, run>>

\* the agents that have a session
OpenSessions(a) == {name \in StageNames : a.sessions[name] = "open"}

\* BaseComplianceAgent.shutdown of one agent, lines 105-110: without a session
\* nothing happens; a close() that raises leaves the session attribute set
StageShutdown(session, raises) ==
    IF session = "none" THEN [session |-> "none", ended |-> "nothing"]
    ELSE IF raises THEN [session |-> session, ended |-> "raised"]
    ELSE [session |-> "none", ended |-> "closed"]

\* a gather without return_exceptions: the first exception of an agent's
\* shutdown() is raised at line 195 and leaves shutdown()
ShutdownAgentsPropagating(a) ==
    [a EXCEPT !.shutdown =
                  IF \E name \in StageNames : a.stage_shutdowns[name] = "raised"
                  THEN "raised" ELSE "done"]

\* lines 195-197: the gather has every result, the exceptions among them
\* (return_exceptions=True); the list is dropped and shutdown returns
ShutdownAgents(a) == [a EXCEPT !.shutdown = "done"]

\* no shutdown() call is in progress
NotShuttingDown(a) == a.shutdown \in {"none", "done", "raised"}

\* await orchestrator.shutdown(), up to its first suspension.  With a task
\* bound to monitoring_task that is not done, the task is cancelled and the
\* call is suspended at line 186.  With no task, or one that is done (the
\* await of line 186 then does not suspend), the call goes on to line 195:
\* the gather makes a task of each agent's shutdown() and the call is
\* suspended there, before any of them has run.
Shutdown ==
    /\ NotShuttingDown(agents)
    /\ agents' =
          IF agents.monitoring_task = 0
             \/ loops[agents.monitoring_task].pc = "ended"
          THEN [agents EXCEPT !.shutdown = "awaiting_agents",
                              !.awaited_task = agents.monitoring_task,
                              !.stage_shutdowns = [name \in StageNames |-> "none"],
                              !.loops_at_shutdown = Len(loops)]
          ELSE [agents EXCEPT !.loops[agents.monitoring_task] = Cancelled(@),
                              !.shutdown = "awaiting_task",
                              !.awaited_task = agents.monitoring_task,
                              !.stage_shutdowns = [name \in StageNames |-> "none"],
                              !.loops_at_shutdown = Len(loops)]
    /\ UNCHANGED <<memory_bank, now, api, has_memory_bank, session_manager,
                   workflow_history, run>>

\* the awaited task is done: shutdown() resumes at line 186, goes on to line
\* 195 and is suspended there, the agents' shutdown() tasks created
ShutdownResume ==
    /\ agents.shutdown = "awaiting_task"
    /\ loops[agents.awaited_task].pc = "ended"
    /\ agents' = [agents EXCEPT !.shutdown = "awaiting_agents"]
    /\ UNCHANGED <<memory_bank, now, api, has_memory_bank, session_manager,
                   workflow_history, run>>

\* the shutdown() tasks of the four agents run, one after the other in the
\* same pass of the event loop; those in raising have a session whose
\* close() raises
AgentsShutdown(raising) ==
    /\ agents.shutdown = "awaiting_agents"
    /\ raising \subseteq OpenSessions(agents)
    /\ agents' = [agents EXCEPT
                     !.shutdown = "agents_ended",
                     !.sessions = [name \in StageNames |->
                         StageShutdown(agents.sessions[name], name \in raising).session],
                     !.stage_shutdowns = [name \in StageNames |->
                         StageShutdown(agents.sessions[name], name \in raising).ended]]
    /\ UNCHANGED <<memory_bank, now, api, has_memory_bank, session_manager,
                   workflow_history, run>>

\* the gather of line 195 is done: shutdown() resumes there and returns
ShutdownReturns ==
    /\ agents.shutdown = "agents_ended"
    /\ agents' = ShutdownAgents(agents)
    /\ UNCHANGED <<memory_bank, now, api, has_memory_bank, session_manager,
                   workflow_history, run>>

\* how a start_session() call ends: it returns the new session, the close()
\* of the session the agent had raises, or the agent's start_session() raises
StartOutcomes == {"ok", "close_raised", "start_raised"}

\* await agent.start_session() on the agent of a stage, lines 61-68: a
\* session the agent has is closed and the new one is bound.  After an
\* exception the attribute is what it was: None, or the old session object.
StartSession(name, outcome) ==
    /\ outcome = "close_raised" => agents.sessions[name] # "none"
    /\ agents' = [agents EXCEPT !.sessions[name] = IF outcome = "ok" THEN "open" ELSE @]
    /\ UNCHANGED <<memory_bank, now, api, has_memory_bank, session_manager,
                   workflow_history, run>>

\* how a process() call ends: it returns the parsed response, the
\* start_session() of line 73 raises, or send_message raises at line 80
ProcessOutcomes == {"ok", "start_raised", "send_raised"}

\* sum of requests_processed over the agents
Requests(a) ==
    LET RECURSIVE Sum(_)
        Sum(S) == IF S = {} THEN 0
                  ELSE LET name == CHOOSE x \in S : TRUE
                       IN a.metrics[name].requests_processed + Sum(S \ {name})
    IN Sum(StageNames)

\* await agent.process(input_data) on the agent of a stage, lines 70-90: an
\* agent without a session starts one; the request is counted and the clock
\* read before the message is sent, and an exception of the send is counted
\* and raised again.  An exception of line 73 leaves the call before the try.
Process(name, outcome) ==
    /\ outcome = "start_raised" => agents.sessions[name] = "none"
    /\ IF outcome = "start_raised"
       THEN UNCHANGED <<agents, now>>
       ELSE /\ Requests(agents) < MaxRequests
            /\ now' = ClockAfter(now, "us")
            /\ agents' = [agents EXCEPT
                             !.sessions[name] = "open",
                             !.metrics[name] =
                                 [last_activity |-> now',
                                  requests_processed |-> @.requests_processed + 1,
                                  errors |-> IF outcome = "send_raised"
                                             THEN @.errors + 1 ELSE @.errors]]
    /\ UNCHANGED <<memory_bank, api, has_memory_bank, session_manager,
                   workflow_history, run>>

\* one pass of the i-th loop for the draws of its detect_regulatory_changes
\* call: no change, or a change of one of two regulations, of any type, at
\* the highest impact level
Detect(i, has_changes, pick, change_type) ==
    Check(i, detect_regulatory_changes(agents.monitor.regulatory_sources, has_changes,
                                       pick, change_type, "high", TRUE))

\* the steps of the i-th monitoring_loop task
LoopStep(i) ==
    \/ \E has_changes \in BOOLEAN, pick \in 0..1, change_type \in ChangeTypes :
          Detect(i, has_changes, pick, change_type)
    \/ SleepElapses(i)
    \/ CancelDelivered(i)

NextContinuous ==
    \/ StartMonitoring
    \/ \E i \in 1..MaxStarts, has_changes \in BOOLEAN, pick \in 0..1,
          change_type \in ChangeTypes : Detect(i, has_changes, pick, change_type)
    \/ \E i \in 1..MaxStarts : SleepElapses(i)
    \/ \E i \in 1..MaxStarts : CancelDelivered(i)
    \/ Shutdown
    \/ ShutdownResume
    \/ \E raising \in SUBSET StageNames : AgentsShutdown(raising)
    \/ ShutdownReturns

\* an orchestrator after construction, for a configuration with the default
\* regulations or none, with or without the 'regulation_monitor' section
InitContinuous ==
    /\ InitBank(NewBankChoices)
    /\ has_memory_bank = TRUE
    /\ workflow_history = <<>>
    /\ run = <<>>
    /\ session_manager = NewSessionManager(DefaultSessionTimeoutMinutes,
                                           DefaultMaxSessions, FALSE)
    /\ \E regulatory_sources \in {DefaultRegulations, <<>>}, has_monitor \in BOOLEAN :
          agents = [NewAgents(regulatory_sources) EXCEPT !.config_has_monitor = has_monitor]

SpecContinuous == InitContinuous /\ [][NextContinuous]_vars

\* the agents that have a session when the model starts: none, one, two, all
SessionChoices == {{}, {"analyzer"}, {"monitor", "risk_assessor"}, StageNames}

\* the agent on which start_session and process are called
CalledAgents == {"analyzer"}

\* the orchestrator with its monitoring loops and shutdown, and the calls of
\* start_session and process on its agents; a pass of a loop finds no change
\* or a new requirement of the first regulation
NextShutdown ==
    \/ StartMonitoring
    \/ \E i \in 1..MaxStarts, has_changes \in BOOLEAN :
          Detect(i, has_changes, 0, "new_requirement")
    \/ \E i \in 1..MaxStarts : SleepElapses(i)
    \/ \E i \in 1..MaxStarts : CancelDelivered(i)
    \/ Shutdown
    \/ ShutdownResume
    \/ \E raising \in SUBSET StageNames : AgentsShutdown(raising)
    \/ ShutdownReturns
    \/ \E name \in CalledAgents, outcome \in StartOutcomes : StartSession(name, outcome)
    \/ \E name \in CalledAgents, outcome \in ProcessOutcomes : Process(name, outcome)

\* an orchestrator whose agents have a session or none (start_session was
\* called on some of them), with or without the 'regulation_monitor' section
\* in its configuration
InitShutdown ==
    /\ InitBank(NewBankChoices)
    /\ has_memory_bank = TRUE
    /\ workflow_history = <<>>
    /\ run = <<>>
    /\ session_manager = NewSessionManager(DefaultSessionTimeoutMinutes,
                                           DefaultMaxSessions, FALSE)
    /\ \E has_monitor \in BOOLEAN, open \in SessionChoices :
          agents = [NewAgents(DefaultRegulations) EXCEPT
                       !.config_has_monitor = has_monitor,
                       !.sessions = [name \in StageNames |->
                                        IF name \in open THEN "open" ELSE "none"]]

SpecShutdown == InitShutdown /\ [][NextShutdown]_vars

\* the event loop runs every task that is ready and every timer that is due:
\* a task goes through its check, a sleep ends, a requested cancellation is
\* delivered
SpecContinuousFair ==
    /\ SpecContinuous
    /\ \A i \in 1..MaxStarts : WF_vars(LoopStep(i))

----------------------------------------------------------------------------
(* Scoring: ComplianceAnalyzerAgent.analyze_compliance and                  *)
(* RiskAssessmentAgent.assess_risk, called directly.                        *)

\* the regulations of the datasets handed to the analyzer
AnalysisRegulations == {"GDPR", "HIPAA", "SOX"}

\* regulatory_data arguments of analyze_compliance: a mapping from some of
\* the regulations to entries that succeeded or failed, as in
\* test_analyzer_agent_compliance_check's inner dict, or the whole result of
\* the monitor, as the orchestrator passes it at line 67
AnalyzeArguments ==
    UNION {[S -> {[status |-> "success"], [status |-> "failed"]}] :
              S \in SUBSET AnalysisRegulations}
        \cup {WholeResult(regulatory_dataset(DefaultRegulations,
                                             [i \in 1..Len(DefaultRegulations) |->
                                                 fetch_regulation_data(
                                                     DefaultRegulations[i], "ok")],
                                             StartTime))}

\* random.randint(65, 98), line 47
RegulationScores == {RegulationScoreLow, RegulationScoreMid, RegulationScoreHigh}

\* the keys that line 46 lets through
Scored(regulatory_data) ==
    {k \in DOMAIN regulatory_data : regulatory_data[k].status = "success"}

\* overall_score values of hand-made analysis results: the ends of the score
\* range, their neighbours, and values outside the range
OverallScores == {0 - 5, 0, 1, FullScore - 1, FullScore, FullScore + 5}

\* one call on an agent, its result kept
AgentCall(last) ==
    /\ api.ops < MaxOps
    /\ now' = ClockAfter(now, "us")
    /\ api' = [ops |-> api.ops + 1, last |-> last]
    /\ UNCHANGED <<memory_bank, has_memory_bank, session_manager, workflow_history, run,
                   agents>>

\* await analyzer.analyze_compliance(company_data, regulatory_data)
Analyze(regulatory_data, score_of, fallback) ==
    AgentCall([result |-> analyze_compliance(regulatory_data, score_of, fallback),
               regulatory_data |-> regulatory_data,
               op |-> "analyze"])

\* await risk_assessor.assess_risk(analysis_results)
AssessRisk(analysis_results) ==
    AgentCall([result |-> assess_risk(analysis_results),
               op |-> "assess_risk",
               analysis_results |-> analysis_results])

\* assess_risk is given the result of the analysis just made, as at line 73
\* of the orchestrator, or a hand-made dict with or without an overall_score
NextScoring ==
    \/ \E regulatory_data \in AnalyzeArguments,
          fallback \in {FallbackScoreLow, FallbackScoreHigh} :
          \E score_of \in [Scored(regulatory_data) -> RegulationScores] :
             Analyze(regulatory_data, score_of, fallback)
    \/ /\ api.last.op = "analyze"
       /\ AssessRisk(AnalysisResults(TRUE, api.last.result.overall_score,
                                     api.last.result.regulation_scores))
    \/ \E has \in BOOLEAN, score \in OverallScores :
          AssessRisk(AnalysisResults(has, score, [k \in {} |-> 0]))

InitScoring ==
    /\ InitBank(NewBankChoices)
    /\ has_memory_bank = TRUE
    /\ InitOrchestrator

SpecScoring == InitScoring /\ [][NextScoring]_vars

----------------------------------------------------------------------------
(* Properties of execute_compliance_check *)

\* the workflow_history records of the r-th call (the calls start at
\* different instants, and a record carries its call's start instant)
RecordsOf(r) ==
    {i \in 1..Len(workflow_history) :
        workflow_history[i].timestamp = run[r].workflow_start}

\* the call has returned or raised
Finished(r) == run[r].pc \in {"returned", "raised"}

StatusesOf(r) == {workflow_history[i].status : i \in RecordsOf(r)}

\* C1: every call to execute_compliance_check has appended exactly one record
\* to workflow_history by the time it returns or raises (completed when it
\* returns, failed when it raises), and none before, whatever the stages do
\* and whatever report the Report stage returns.
C1_ExactlyOneRecordPerCall ==
    \A r \in 1..Len(run) :
        /\ Cardinality(RecordsOf(r)) = (IF Finished(r) THEN 1 ELSE 0)
        /\ run[r].pc = "returned" => StatusesOf(r) = {"completed"}
        /\ run[r].pc = "raised" => StatusesOf(r) = {"failed"}

\* C2: when the bank's store raises in a call whose four stages all
\* succeeded, the call still returns its result, recorded as completed; the
\* storage error does not reach the caller.
C2_StoreFailureSwallowed ==
    \A r \in 1..Len(run) :
        run[r].store = "raised" =>
            /\ run[r].pc = "returned"
            /\ StatusesOf(r) = {"completed"}

\* a stage of the call raised
StageRaised(rec) ==
    "raised" \in {rec.monitor, rec.collect, rec.analyze, rec.risk, rec.report}

\* the errors raised by the stages of the call
StageErrors(rec) ==
    {e \in {"monitor_error", "collect_error", "analyze_error", "risk_error", "report_error"} :
        \/ e = "monitor_error" /\ rec.monitor = "raised"
        \/ e = "collect_error" /\ rec.collect = "raised"
        \/ e = "analyze_error" /\ rec.analyze = "raised"
        \/ e = "risk_error" /\ rec.risk = "raised"
        \/ e = "report_error" /\ rec.report = "raised"}

\* the call raises in this step
Raises(r) == run[r].pc # "raised" /\ run'[r].pc = "raised"

\* the call moves in this step: it goes on to its next stage, returns or raises
Moves(r) == run'[r].pc # run[r].pc

\* this step reads the clock anew and appends one record to the history: the
\* failed record of the call, with the error the call raises and the time
\* from the call's start to this reading of the clock
AppendsFailedRecord(r) ==
    /\ now' # now
    /\ Len(workflow_history') = Len(workflow_history) + 1
    /\ SubSeq(workflow_history', 1, Len(workflow_history)) = workflow_history
    /\ \A record \in {workflow_history'[Len(workflow_history')]} :
          /\ record.status = "failed"
          /\ record.error = run'[r].error
          /\ record.company_id = run[r].company_id
          /\ record.timestamp = run[r].workflow_start
          /\ record.duration = Duration(run[r].workflow_start, now')

\* the r-th call has been made and one of its stages has raised
StageOfCallRaised(r) == IF r \in 1..Len(run) THEN StageRaised(run[r]) ELSE FALSE

\* the r-th call has raised
CallRaised(r) == IF r \in 1..Len(run) THEN run[r].pc = "raised" ELSE FALSE

\* the except block of the call records and re-raises the error of a stage
\* that raised; the call never returns a result, and no completed record is
\* written for it
StageFailureRecorded ==
    \A r \in 1..Len(run) :
        StageRaised(run'[r]) =>
            /\ run'[r].pc \in {"collecting", "raised"}
            /\ "completed" \notin StatusesOf(r)'
            /\ (StageRaised(run[r]) /\ Moves(r)) => Raises(r)
            /\ Raises(r) =>
                  /\ run'[r].error \in StageErrors(run'[r])
                  /\ AppendsFailedRecord(r)
            /\ run'[r].pc = "raised" =>
                  \E i \in RecordsOf(r)' :
                      /\ workflow_history'[i].status = "failed"
                      /\ workflow_history'[i].error = run'[r].error

\* C3: when a stage of a call raises (Monitor gather, Analyze collect,
\* Analyze scoring, RiskAssess or Report), the call comes to append a record
\* with status failed that carries the error text and the duration up to the
\* failure, and raises that error; the call never returns a result and no
\* completed record is written for it.  A branch of the concurrent phase that
\* raises leaves the call suspended for two more callbacks, in which it does
\* nothing; its next move is to record and raise.
C3_StageFailureRecordedAndReraised ==
    /\ [][StageFailureRecorded]_vars
    /\ \A r \in 1..MaxRuns : StageOfCallRaised(r) ~> CallRaised(r)

\* two calls, one failed in a late stage and one in the concurrent phase,
\* whose record was appended after its branch had raised and another call had
\* taken a step
C3_Witness ==
    /\ \E r \in 1..Len(run) : run[r].error \in {"analyze_error", "risk_error", "report_error"}
    /\ \E r \in 1..Len(run) :
          /\ run[r].error \in {"monitor_error", "collect_error"}
          /\ \E i \in RecordsOf(r) :
                /\ workflow_history[i].status = "failed"
                /\ workflow_history[i].duration > 1

\* the serials of the entries the bank holds
HeldSerials ==
    UNION {{memory_store[c][i].serial : i \in 1..Len(memory_store[c])} :
             c \in DOMAIN memory_store}

\* the call whose Monitor gather raised is suspended or has raised; nothing
\* has been started for it beyond the two branches, the gather of line 59
\* never holds the results, and there is no report and no bank entry of it
MonitorFailureDiscards(rec) ==
    rec.monitor = "raised" =>
        /\ rec.pc \in {"collecting", "raised"}
        /\ rec.gather # "result"
        /\ rec.started = {"monitor", "collect"}
        /\ rec.analyze = "none" /\ rec.risk = "none"
        /\ rec.report = "none" /\ rec.store = "none"
        /\ rec.final_report = BareReport
        /\ rec.stored_serial = 0

\* every entry of the bank comes from a call whose Monitor gather returned
EntriesFromGatheredCalls ==
    /\ HeldSerials \subseteq
          {run[r].stored_serial : r \in {x \in 1..Len(run) : run[x].monitor = "ok"}}
    /\ Len(audit_trail) = Cardinality({r \in 1..Len(run) : run[r].store = "ok"})

\* C4: when the Monitor gather of a call fails in the concurrent phase, the
\* call ends failed, with one failed record: once the branch has raised the
\* only move of the call is to raise.  The result of the Analyze collect,
\* completed or not, is dropped: scoring, risk assessment and report are
\* never started for the call, and it produces no report and no bank entry.
C4_MonitorFailureDiscardsCollect ==
    [][/\ \A r \in 1..Len(run) :
             /\ MonitorFailureDiscards(run'[r])
             /\ (run[r].monitor = "raised" /\ Moves(r)) => Raises(r)
             /\ (run'[r].monitor = "raised" /\ run'[r].pc = "raised") =>
                   StatusesOf(r)' = {"failed"}
       /\ EntriesFromGatheredCalls']_vars

\* one call that raised the error of its Monitor gather after the collect had
\* returned and the gather had been told of it, and one that raised while the
\* collect was still running
C4_Witness ==
    /\ \E r \in 1..Len(run) :
          /\ run[r].monitor = "raised" /\ run[r].collect = "ok"
          /\ run[r].notified = {"collect"}
          /\ run[r].pc = "raised" /\ run[r].error = "monitor_error"
    /\ \E r \in 1..Len(run) :
          /\ run[r].monitor = "raised" /\ run[r].collect = "running"
          /\ run[r].pc = "raised"

----------------------------------------------------------------------------
(* Properties of a call whose stages all succeed *)

EntriesOf(store, c) == IF c \in DOMAIN store THEN store[c] ELSE <<>>

Count(store, c) == Len(EntriesOf(store, c))

\* the r-th call returns in this step
Returns(r) == run[r].pc = "reporting" /\ run'[r].pc = "returned"

\* the store of this step for company c runs a compaction pass that finds a
\* company with more than CompanyLimit entries, whose list it rewrites
RewritingPass(c) ==
    /\ TotalEntries(memory_store) + 1 > memory_bank.max_entries
    /\ \E d \in DOMAIN memory_store \cup {c} :
          Count(memory_store, d) + (IF d = c THEN 1 ELSE 0) > CompanyLimit

\* what the returning call reports: a completed record of its own, and a
\* report whose compliance score lies in 0..100
ReportsCompleted(r) ==
    /\ Len(workflow_history') = Len(workflow_history) + 1
    /\ workflow_history'[Len(workflow_history')].status = "completed"
    /\ workflow_history'[Len(workflow_history')].timestamp = run[r].workflow_start
    /\ generate_report(run'[r].overall_score,
                       run'[r].risk_score).overall_compliance_score \in 0..100

\* the bank holds one more entry under c and the same entries elsewhere
OneMoreEntry(c) ==
    /\ Count(memory_store', c) = Count(memory_store, c) + 1
    /\ \A d \in Companies \ {c} :
          EntriesOf(memory_store', d) = EntriesOf(memory_store, d)

\* C5 as stated: a call for company c whose stages all succeed returns a
\* result with status completed and a compliance score in [0,100], and
\* increases the number of bank entries under c by exactly one, leaving the
\* entries of every other company unchanged.
C5_Original ==
    [][\A r \in 1..Len(run) :
          Returns(r) => ReportsCompleted(r) /\ OneMoreEntry(run[r].company_id)]_vars

\* the list of c is the list it was with the entry of the r-th call at its end
OwnEntryAppended(r, c) ==
    /\ SubSeq(EntriesOf(memory_store', c), 1, Count(memory_store, c))
          = EntriesOf(memory_store, c)
    /\ \A entry \in {memory_store'[c][Count(memory_store', c)]} :
          /\ entry.serial = run'[r].stored_serial
          /\ entry.company_id = c
          /\ entry.compliance_score = run'[r].overall_score

\* C5, amended: a call for company c whose stages all succeed returns a
\* result with status completed and a compliance score in [0,100], and,
\* unless the compaction pass of its store rewrites an entry list (the bank
\* then holds more than max_entries entries and some company more than 100),
\* it increases the number of entries under c by exactly one, the new entry
\* being its own and the entries stored before staying as they were, and
\* leaves every other company's entries unchanged.
C5_CompletedRunStoresOneEntry ==
    [][\A r \in 1..Len(run) :
          Returns(r) =>
              /\ ReportsCompleted(r)
              /\ ~RewritingPass(run[r].company_id) =>
                    /\ OneMoreEntry(run[r].company_id)
                    /\ OwnEntryAppended(r, run[r].company_id)]_vars

\* a call for c2 has returned on the bank that held CompanyLimit entries of
\* c1: its store ran a compaction pass that rewrote nothing
C5_Witness ==
    /\ \E r \in 1..Len(run) : run[r].pc = "returned" /\ run[r].company_id = "c2"
    /\ Count(memory_store, "c1") = CompanyLimit
    /\ Count(memory_store, "c2") = 1
    /\ metrics.compactions_performed = 1

\* the entries company c held before the calls of the orchestrator
InitialCount(c) ==
    Cardinality({i \in 1..Len(audit_trail) : audit_trail[i].company_id = c})
        - Cardinality({r \in 1..Len(run) :
                          run[r].company_id = c /\ run[r].store = "ok"})

\* the calls made are for different companies, and all have ended
DifferentCompaniesAllEnded ==
    /\ run # <<>>
    /\ \A r \in 1..Len(run) : Finished(r)
    /\ \A r1, r2 \in 1..Len(run) : r1 # r2 => run[r1].company_id # run[r2].company_id

\* every call is completed, with one record of its own and one entry gained
AllCompletedOneEntryEach ==
    /\ \A r \in 1..Len(run) : run[r].pc = "returned" /\ StatusesOf(r) = {"completed"}
    /\ Len(workflow_history) = Len(run)
    /\ \A r \in 1..Len(run) :
          Count(memory_store, run[r].company_id) = InitialCount(run[r].company_id) + 1

\* C6 as stated: when N calls for N different companies run concurrently on
\* one orchestrator and one bank, then in every interleaving every call ends
\* completed, workflow_history gains exactly N records and the bank gains
\* exactly one entry under each of the N companies.
C6_Original ==
    /\ \A r \in 1..Len(run) : run[r].pc # "raised"
    /\ DifferentCompaniesAllEnded => AllCompletedOneEntryEach

\* the entries the bank held before the calls of the orchestrator
InitialTotal ==
    Len(audit_trail) - Cardinality({r \in 1..Len(run) : run[r].store = "ok"})

\* a company of one of the calls held CompanyLimit entries or more before
\* the calls, and the entries of the calls bring the bank above max_entries:
\* in some interleaving the compaction pass of a store finds that company
\* with more than CompanyLimit entries and rewrites its list
OwnListRewritable ==
    /\ \E r \in 1..Len(run) : InitialCount(run[r].company_id) >= CompanyLimit
    /\ InitialTotal + Len(run) > memory_bank.max_entries

\* C6, amended: when N calls for N different companies run concurrently on
\* one orchestrator and one bank, then, unless one of the N companies already
\* holds 100 entries or more and the N new entries bring the bank above its
\* max_entries, in every interleaving every call ends completed,
\* workflow_history gains exactly N records and the bank gains exactly one
\* entry under each of the N companies.
C6_ConcurrentRunsIndependent ==
    /\ \A r \in 1..Len(run) : run[r].pc # "raised"
    /\ (DifferentCompaniesAllEnded /\ ~OwnListRewritable) => AllCompletedOneEntryEach

\* two calls for two companies on a bank of the default max_entries in which
\* the first company held CompanyLimit entries; the call started second
\* resumed from its gather and ended first, its store in the same clock second
\* as the other's
C6_Witness ==
    /\ Len(run) = 2
    /\ DifferentCompaniesAllEnded
    /\ InitialCount(run[1].company_id) = CompanyLimit
    /\ memory_bank.max_entries = DefaultMaxEntries
    /\ run[2].ended # run[1].ended
    /\ TsLeq(run[2].ended, run[1].ended)
    /\ run[2].ended.sec = run[1].ended.sec

----------------------------------------------------------------------------
(* Properties of the memory bank *)

AllEntries(store) ==
    UNION {{store[c][i] : i \in 1..Len(store[c])} : c \in DOMAIN store}

\* this step is a direct call of the named operation
Called(op) == api'.ops = api.ops + 1 /\ api'.last.op = op

\* the bank of this step's store call at line 79, before the compaction check
BeforeCompaction ==
    AppendEntry(memory_bank, api'.last.company_id, api'.last.compliance_data, now')

\* C7: a store_compliance_check call that returns has appended exactly one
\* entry under its company id, carrying the id it returns; and no store,
\* retrieval, trend or compaction operation changes a field of an entry
\* stored before (an entry the bank still holds is the entry as stored, and
\* a retrieval returns stored entries as they are).
C7_OneEntryPerStoreNoneMutated ==
    [][/\ \A e2 \in AllEntries(memory_store') : \A e1 \in AllEntries(memory_store) :
             e1.serial = e2.serial => e1 = e2
       /\ (Called("retrieve") \/ Called("trends")) => memory_bank' = memory_bank
       /\ Called("retrieve") =>
             \A i \in 1..Len(api'.last.history) :
                 api'.last.history[i] \in AllEntries(memory_store)
       /\ Called("store") =>
             LET c == api'.last.company_id
                 fresh == {e \in AllEntries(memory_store') :
                             \A e1 \in AllEntries(memory_store) : e1.serial # e.serial}
             IN /\ metrics'.total_stored = metrics.total_stored + 1
                /\ \A e \in fresh : /\ e.serial = metrics'.total_stored
                                     /\ e.company_id = c
                                     /\ e.entry_id = api'.last.entry_id
                                     /\ e.timestamp = now'
                /\ metrics'.compactions_performed = metrics.compactions_performed =>
                      /\ Count(memory_store', c) = Count(memory_store, c) + 1
                      /\ SubSeq(memory_store'[c], 1, Count(memory_store, c))
                            = EntriesOf(memory_store, c)
                      /\ memory_store'[c][Count(memory_store', c)] \in fresh
                      /\ \A d \in Companies \ {c} :
                            EntriesOf(memory_store', d) = EntriesOf(memory_store, d)]_vars

\* a retrieval after a store whose compaction rewrote the list of c1
C7_Witness ==
    /\ api.ops = 2
    /\ api.last.op = "retrieve"
    /\ api.last.company_id = "c1"
    /\ api.last.history # <<>>
    /\ metrics.compactions_performed = 1
    /\ Count(memory_store, "c1") < CompanyLimit

\* two entries built from identical payloads
SamePayload(e1, e2) ==
    /\ e1.compliance_score = e2.compliance_score
    /\ e1.risk_score = e2.risk_score
    /\ e1.key_findings = e2.key_findings
    /\ e1.gap_count = e2.gap_count

\* C8: two store calls with identical payloads for the same company return
\* two distinct entry ids and leave two separate entries, however short the
\* time between them: the entries a company holds that were built from
\* identical payloads carry pairwise distinct ids.
C8_DistinctIdsForIdenticalPayloads ==
    \A c \in DOMAIN memory_store :
        \A i, j \in 1..Len(memory_store[c]) :
            (i < j /\ SamePayload(memory_store[c][i], memory_store[c][j]))
                => memory_store[c][i].entry_id # memory_store[c][j].entry_id

\* C9: a compaction pass never removes an entry whose compliance_score is
\* below 70 or whose findings mention a high-severity gap: every such entry
\* a company holds when the pass starts is held after it.
C9_CompactionKeepsHighRisk ==
    [][(Called("store")
          /\ metrics'.compactions_performed > metrics.compactions_performed) =>
            \A c \in DOMAIN BeforeCompaction.memory_store :
                \A i \in 1..Len(BeforeCompaction.memory_store[c]) :
                    IsHighRisk(BeforeCompaction.memory_store[c][i]) =>
                        BeforeCompaction.memory_store[c][i] \in AllEntries(memory_store')]_vars

\* C10: the store call that gives a company its K-th entry, K > 100, triggers
\* compaction; after it the company holds at least min(K, 50) entries, among
\* them every entry with a score below 70 that it held before the compaction.
C10_CompactionAboveCompanyLimit ==
    [][Called("store") =>
          LET c == api'.last.company_id
              before == BeforeCompaction.memory_store[c]
              K == Len(before)
          IN K > CompanyLimit =>
                /\ metrics'.compactions_performed = metrics.compactions_performed + 1
                /\ Count(memory_store', c) >= (IF K < RecentKeep THEN K ELSE RecentKeep)
                /\ \A i \in 1..K :
                      before[i].compliance_score < HighRiskScore =>
                          before[i] \in AllEntries(memory_store')]_vars

\* C11 as stated: storing K <= 100 entries for one company never triggers
\* compaction, whatever max_entries is: the store call that gives a company
\* its K-th entry performs no compaction pass and all K entries remain.
C11_Original ==
    [][Called("store") =>
          LET c == api'.last.company_id
              before == BeforeCompaction.memory_store[c]
          IN Len(before) <= CompanyLimit =>
                /\ metrics'.compactions_performed = metrics.compactions_performed
                /\ memory_store'[c] = before]_vars

\* C11, amended: storing K <= 100 entries for one company never removes an
\* entry of it: the store call performs a compaction pass exactly when the
\* entries of all companies together exceed max_entries after the append,
\* and the pass leaves every list of at most 100 entries as it is, so all K
\* entries remain in the store.
C11_NoRewriteUpToCompanyLimit ==
    [][Called("store") =>
          /\ metrics'.compactions_performed = metrics.compactions_performed
                + (IF TotalEntries(BeforeCompaction.memory_store) > memory_bank.max_entries
                   THEN 1 ELSE 0)
          /\ \A d \in DOMAIN BeforeCompaction.memory_store :
                Len(BeforeCompaction.memory_store[d]) <= CompanyLimit =>
                    memory_store'[d] = BeforeCompaction.memory_store[d]]_vars

\* a bank of max_entries 1 after two stores for c1: a pass ran, both remain
C11_Witness ==
    /\ memory_bank.max_entries = 1
    /\ api.last.op = "store"
    /\ Count(memory_store, "c1") = 2
    /\ metrics.compactions_performed = 1

----------------------------------------------------------------------------
(* Properties of the session manager *)

active_sessions == session_manager.active_sessions

session_history == session_manager.session_history

\* the ids create_session has returned
CreatedIds == 1..session_manager.uuids

\* the ids of the sessions the manager holds
StoredIds(sm) == DOMAIN sm.active_sessions \cup DOMAIN sm.session_history

\* the stored record of a session, wherever it is
SessionOf(sm, id) ==
    IF id \in DOMAIN sm.active_sessions THEN sm.active_sessions[id]
    ELSE sm.session_history[id]

\* C12: a session that has been created is, in every reachable state, after
\* any sequence of create, get, update, record, end, stop and reaper cycles,
\* in exactly one of active_sessions and session_history (and the two hold
\* nothing else: each record is filed under its own id).
C12_ActiveOrHistoryNeverBoth ==
    /\ \A id \in CreatedIds :
          (id \in DOMAIN active_sessions) # (id \in DOMAIN session_history)
    /\ DOMAIN active_sessions \cup DOMAIN session_history \subseteq CreatedIds
    /\ \A id \in CreatedIds : SessionOf(session_manager, id).session_id = id

\* C13: the workflow_progress of a session never decreases, whatever
\* sequence of record, update, get and end operations is made on it.
C13_ProgressNeverDecreases ==
    [][\A id \in StoredIds(session_manager) \cap StoredIds(session_manager') :
          SessionOf(session_manager', id).context.workflow_progress.int
              >= SessionOf(session_manager, id).context.workflow_progress.int]_vars

\* the step is a scan of a _cleanup_loop task, returning or raising
Scanned == Called("reaper") \/ Called("reaper_raised")

\* C14: a reaper cycle moves every active session whose last_activity is
\* older than the timeout when the cycle runs to the history, with status
\* timeout; and a session that is in the history is in no later state among
\* the active sessions.
C14_ReaperEndsTimedOutSessions ==
    [][/\ Scanned =>
             \A id \in DOMAIN active_sessions :
                 (/\ active_sessions[id].last_activity # NotATimestamp
                  /\ TimedOut(active_sessions[id].last_activity, now',
                              session_manager.session_timeout_minutes)) =>
                     /\ id \notin DOMAIN session_manager'.active_sessions
                     /\ id \in DOMAIN session_manager'.session_history
                     /\ session_manager'.session_history[id].status = "timeout"
       /\ \A id \in DOMAIN session_history :
             id \notin DOMAIN session_manager'.active_sessions]_vars

\* C15: a session leaves the active sessions only through an end_session
\* call of a caller for its id, or through a reaper cycle that ends it with
\* status timeout; no other operation, start and stop included, ends it.
C15_OnlyEndOrReaperEnds ==
    [][\A id \in DOMAIN active_sessions :
          id \notin DOMAIN session_manager'.active_sessions =>
              \/ Called("end") /\ api'.last.session_id = id
              \/ /\ Called("reaper")
                 /\ session_manager'.session_history[id].status = "timeout"]_vars

\* C16: update, record, end and get called with an id that is unknown or
\* that belongs to a session no longer active return the failure signal
\* (false, or no record), raise nothing, and leave active_sessions and
\* session_history unchanged.
C16_NotFoundIsSignalledAndChangesNothing ==
    [][(/\ \E op \in {"get", "update", "record", "end"} : Called(op)
        /\ api'.last.where # "active") =>
            /\ api'.last.result = (IF api'.last.op = "get" THEN NoSession ELSE "false")
            /\ session_manager'.active_sessions = active_sessions
            /\ session_manager'.session_history = session_history]_vars

----------------------------------------------------------------------------
(* Properties of the reads of the memory bank *)

\* C17: retrieve_compliance_history for a company that was never stored
\* returns the empty list, raises nothing, creates no entry list for the
\* company and changes nothing else in the bank.
C17_RetrieveUnknownCompany ==
    [][(Called("retrieve") /\ api'.last.company_id \notin DOMAIN memory_store) =>
          /\ api'.last.history = <<>>
          /\ api'.last.company_id \notin DOMAIN memory_bank'.memory_store
          /\ memory_bank' = memory_bank]_vars

\* a retrieval for c2 on a bank that holds entries of c1 only
C17_Witness ==
    /\ api.last.op = "retrieve"
    /\ api.last.company_id = "c2"
    /\ api.last.history = <<>>
    /\ DOMAIN memory_store = {"c1"}

\* the entries get_compliance_trends reads in this step, newest first
TrendHistory ==
    retrieve_compliance_history(memory_store, api'.last.company_id,
                                TrendLookbackDays, now')

\* C18: get_compliance_trends returns score_trend insufficient_data for a
\* company with exactly one entry; with two or more entries in the window
\* it returns improving when the newest score is above the oldest one,
\* declining when below, stable when equal; and this for every stored
\* payload, those with high-severity gaps included.
C18_ScoreTrend ==
    [][(Called("trends") /\ TrendHistory # <<>>) =>
          /\ api'.last.trends.outcome = "report"
          /\ api'.last.trends.score_trend =
                (IF Len(TrendHistory) = 1 THEN "insufficient_data"
                 ELSE IF TrendHistory[1].compliance_score
                           > TrendHistory[Len(TrendHistory)].compliance_score
                 THEN "improving"
                 ELSE IF TrendHistory[1].compliance_score
                           < TrendHistory[Len(TrendHistory)].compliance_score
                 THEN "declining"
                 ELSE "stable")]_vars

\* C19: get_compliance_trends signals the no-history error exactly when the
\* company has no entry; for a company with at least one entry it returns a
\* report whose confidence is min(95, number of entries * 10).
C19_TrendErrorAndConfidence ==
    [][Called("trends") =>
          LET n == Count(memory_store, api'.last.company_id)
          IN IF n = 0
             THEN api'.last.trends.outcome = "error"
             ELSE /\ api'.last.trends.outcome = "report"
                  /\ api'.last.trends.confidence_in_trends =
                        (IF n * 10 < 95 THEN n * 10 ELSE 95)]_vars

----------------------------------------------------------------------------
(* Properties of the lookups *)

\* the letters of the keys of a table
Letters(keys) == {keys[i].letters : i \in 1..Len(keys)}

\* the lookup of the last call found its key, whatever the case of the name
FoundWhateverTheCase(known) ==
    IF known THEN api.last.result.kind = "data" ELSE api.last.result.kind # "data"

\* the benchmarks table has the pair, compared by letters
BenchmarkKnown(industry, regulation) ==
    \E i \in DOMAIN benchmarks :
        /\ i.letters = industry.letters
        /\ \E r \in DOMAIN benchmarks[i] : r.letters = regulation.letters

\* the not-found result of a tool: the error dict that lists the keys
ListsTheKeys(keys) ==
    /\ api.last.result.kind = "not_found"
    /\ api.last.result.available = keys

\* C20: a lookup that finds nothing in the benchmark table, the
\* regulation database or the framework table returns a structured
\* not-found result that lists the valid keys, and never raises; the lookups
\* do not depend on the case of their keys.
C20_LookupNotFound ==
    /\ api.last.op = "regulation" =>
          /\ FoundWhateverTheCase(api.last.name.letters \in Letters(regulation_db_keys))
          /\ api.last.result.kind # "data" => ListsTheKeys(regulation_db_keys)
    /\ api.last.op = "framework" =>
          /\ FoundWhateverTheCase(api.last.name.letters \in Letters(frameworks_keys))
          /\ api.last.result.kind # "data" => ListsTheKeys(frameworks_keys)
    /\ api.last.op = "benchmark" =>
          /\ FoundWhateverTheCase(BenchmarkKnown(api.last.industry, api.last.name))
          /\ api.last.result.kind # "data" =>
                /\ api.last.result.kind = "not_found"
                /\ api.last.result.available # <<>>

----------------------------------------------------------------------------
(* Properties of the monitor's gather step *)

\* the gather call has returned its dataset
GatherReturned == api.last.op = "gather" /\ api.last.outcome = "returned"

\* the regulations the monitor is configured with
ConfiguredRegulations ==
    {agents.monitor.regulatory_sources[i] : i \in 1..Len(agents.monitor.regulatory_sources)}

\* the fetch did not deliver the regulation's data: its body raised and it
\* returned the error dict, or the coroutine raised
FetchFailed(result) == result.kind = "exception" \/ result.error # NoError

\* the dataset the call returned has one entry per configured regulation,
\* and reports every fetch that returned data with its content
OneEntryPerRegulation ==
    LET data == api.last.result.regulatory_data
        sources == agents.monitor.regulatory_sources
    IN /\ DOMAIN data = ConfiguredRegulations
       /\ api.last.result.sources_checked = Len(sources)
       /\ \A i \in 1..Len(sources) :
             /\ agents.monitor.tasks[i] # RunningTask
             /\ ~FetchFailed(agents.monitor.tasks[i]) =>
                   /\ data[sources[i]].status = "success"
                   /\ data[sources[i]].regulation = sources[i]
                   /\ data[sources[i]].content = regulation_content(sources[i])

\* the gather call never raises; it is pending as long as the call is
\* suspended, and what it returns is the dataset of all its fetches
GatherNeverRaises ==
    api.last.op = "gather" =>
        /\ api.last.outcome # "raised"
        /\ agents.monitor.gather # "exception"
        /\ agents.monitor.gathering <=> api.last.outcome = "pending"
        /\ api.last.outcome = "returned" => OneEntryPerRegulation

\* the suspended call ends in this step
GatherEnds == agents.monitor.gathering /\ ~agents'.monitor.gathering

\* C21: the gather step returns a dataset with exactly one entry per
\* configured regulation and never raises because a fetch failed: whatever
\* the ended fetches did, the call stays suspended while fetches are running
\* or the gather has not been told of their end, every fetch task ends with
\* its own result, and the dataset reports every fetch that returned data
\* with its content.
C21_GatherOneEntryPerRegulation ==
    [][/\ GatherNeverRaises'
       /\ GatherEnds =>
             /\ \A i \in 1..Len(agents.monitor.tasks) : agents.monitor.tasks[i] # RunningTask
             /\ agents.monitor.notified = DOMAIN agents.monitor.tasks
             /\ agents.monitor.callbacks = <<>>
             /\ agents'.monitor.tasks = agents.monitor.tasks
             /\ api'.last.outcome = "returned"
       /\ \A i \in 1..Len(agents.monitor.tasks) :
             (agents.monitor.gathering /\ agents.monitor.tasks[i] # RunningTask) =>
                 agents'.monitor.tasks[i] = agents.monitor.tasks[i]]_vars

\* a dataset returned with the entry of a fetch that raised, the entry of a
\* fetch whose body raised, and the data of a fetch that succeeded
C21_Witness ==
    /\ GatherReturned
    /\ agents.monitor.notified = DOMAIN agents.monitor.tasks
    /\ \E i, j, k \in 1..Len(agents.monitor.tasks) :
          /\ agents.monitor.tasks[i].kind = "exception"
          /\ agents.monitor.tasks[j].kind = "dict" /\ FetchFailed(agents.monitor.tasks[j])
          /\ ~FetchFailed(agents.monitor.tasks[k])
          /\ api.last.result.regulatory_data[agents.monitor.regulatory_sources[k]].content
                # "none"

\* C22: in the dataset returned every fetch that failed is an entry with
\* status failed and an error field, every entry with status success carries
\* no error field, and successful_fetches is the number of fetches that did
\* not fail.
C22_FailedFetchesAreFailedEntries ==
    GatherReturned =>
        LET data == api.last.result.regulatory_data
            sources == agents.monitor.regulatory_sources
        IN /\ \A i \in 1..Len(sources) :
                 FetchFailed(agents.monitor.tasks[i]) =>
                     /\ data[sources[i]].status = "failed"
                     /\ data[sources[i]].error # NoError
           /\ \A name \in DOMAIN data :
                 data[name].status = "success" => data[name].error = NoError
           /\ api.last.result.successful_fetches =
                 Cardinality({i \in 1..Len(sources) : ~FetchFailed(agents.monitor.tasks[i])})

----------------------------------------------------------------------------
(* Properties of the scoring stages *)

\* C23: every result of the Analyze scoring stage has an overall_score
\* between 0 and 100, and when its regulation_scores map is not empty the
\* overall_score is the floor of the mean of the scores in the map.
C23_OverallScoreIsFloorOfMean ==
    api.last.op = "analyze" =>
        LET result == api.last.result
            n == Cardinality(DOMAIN result.regulation_scores)
        IN /\ 0 <= result.overall_score /\ result.overall_score <= FullScore
           /\ n > 0 => /\ result.overall_score * n <= SumOf(result.regulation_scores)
                       /\ SumOf(result.regulation_scores) < (result.overall_score + 1) * n

\* an analysis that skipped a failed entry and scored two regulations whose
\* mean is not an integer
C23_Witness ==
    /\ api.last.op = "analyze"
    /\ \E k \in DOMAIN api.last.regulatory_data :
          api.last.regulatory_data[k].status = "failed"
    /\ Cardinality(DOMAIN api.last.result.regulation_scores) = 2
    /\ SumOf(api.last.result.regulation_scores) % 2 = 1

\* clamp(x, 0, 100)
Clamp(x) == IF x < 0 THEN 0 ELSE IF x > FullScore THEN FullScore ELSE x

\* C24: for every analysis result given to the RiskAssess stage the
\* overall_risk_score returned is 100 - overall_score clamped to [0, 100].
C24_RiskScoreIsClampedComplement ==
    (api.last.op = "assess_risk" /\ api.last.analysis_results.has_overall_score) =>
        api.last.result.overall_risk_score
            = Clamp(FullScore - api.last.analysis_results.overall_score)

\* C25: the risk assessment in the result of every completed workflow run
\* exposes the fields overall_risk_score, risk_level and mitigation_strategies.
C25_RiskAssessmentFields ==
    \A r \in 1..Len(run) :
        run[r].pc = "returned" =>
            {"overall_risk_score", "risk_level", "mitigation_strategies"}
                \subseteq run[r].risk_assessment_keys

\* what has been started for the call was started after the step before it
\* had returned
StagesOrdered(r) ==
    /\ "analyze" \in run[r].started =>
          /\ run[r].monitor = "ok" /\ run[r].collect = "ok"
          /\ run[r].notified = Branches /\ run[r].gather = "result"
    /\ "risk" \in run[r].started => run[r].analyze = "ok"
    /\ "report" \in run[r].started => run[r].risk = "ok"
    /\ "store" \in run[r].started => run[r].report \in {"ok", "bare"}
    /\ "completed" \in StatusesOf(r) =>
          /\ run[r].report \in {"ok", "bare"}
          /\ IF has_memory_bank
             THEN "store" \in run[r].started /\ run[r].store = "ok"
             ELSE run[r].store = "skipped"

\* the step starts the stage for the call
Starts(r, stage) == stage \notin run[r].started /\ stage \in run'[r].started

\* C26: within one run the steps are strictly ordered.  The step that starts
\* the scoring finds both branch tasks of the data collection ended, each
\* with its result, and the gather told of both; the risk assessment is
\* started only once the scoring has returned, the report only once the risk
\* assessment has, the store only once the report has, and the completed
\* record is in the history only if the store has returned (or there is no
\* bank to store in).
C26_StagesStrictlyOrdered ==
    [][\A r \in 1..Len(run) :
          /\ StagesOrdered(r)'
          /\ Starts(r, "analyze") =>
                /\ run[r].monitor = "ok" /\ run[r].collect = "ok"
                /\ run[r].notified = Branches /\ run[r].callbacks = <<>>
                /\ run'[r].analyze = "none"
          /\ Starts(r, "risk") => run[r].pc = "analyzing" /\ run'[r].analyze = "ok"
          /\ Starts(r, "report") => run[r].pc = "assessing" /\ run'[r].risk = "ok"
          /\ Starts(r, "store") =>
                run[r].pc = "reporting" /\ run'[r].report \in {"ok", "bare"}]_vars

\* a run that went through every step and whose completed record is in the
\* history, beside a run whose branches have both returned and whose scoring
\* has not started: the gather has yet to be told of them
C26_Witness ==
    \E r, q \in 1..Len(run) :
        /\ run[r].pc = "returned"
        /\ run[r].started = {"monitor", "collect", "analyze", "risk", "report", "store"}
        /\ "completed" \in StatusesOf(r)
        /\ run[q].pc = "collecting"
        /\ run[q].monitor = "ok" /\ run[q].collect = "ok"
        /\ run[q].gather = "pending"

----------------------------------------------------------------------------
(* Properties of compaction and retrieval *)

\* the elements of a list
Elements(s) == {s[i] : i \in 1..Len(s)}

\* a list without the entries whose identifier occurs earlier in it
FirstOccurrences(s) ==
    LET n == Len(s)
        id == <<>> \o [i \in 1..n |-> s[i].entry_id]
        firsts == {i \in 1..n : \A j \in 1..(i - 1) : id[j] # id[i]}
    IN {s[i] : i \in firsts}

\* the must-keep entries of a list and its RecentKeep most recent entries
MustKeep(entries) == SelectSeq(entries, IsHighRisk)

MostRecent(entries) == Take(SortNewestFirst(entries), RecentKeep)

\* C27: when a compaction pass processes a company (its list is longer than
\* 100), the company's list is replaced by the union of its must-keep entries
\* and its 50 most recent entries, de-duplicated by entry identifier so that
\* of the entries with one identifier the first occurrence is the one kept.
C27_CompactionKeepsFirstOccurrences ==
    [][(Called("store")
          /\ metrics'.compactions_performed > metrics.compactions_performed) =>
            \A c \in DOMAIN memory_store' :
                \A before \in {BeforeCompaction.memory_store[c]} :
                    Len(before) > CompanyLimit =>
                        /\ Elements(memory_store'[c])
                              = FirstOccurrences(MustKeep(before) \o MostRecent(before))
                        /\ Len(memory_store'[c]) = Cardinality(Elements(memory_store'[c]))]_vars

\* C27 on the lists whose entries were stored in different clock seconds, so
\* that no two of them share an identifier
C27_WhenIdsAreDistinct ==
    [][(Called("store")
          /\ metrics'.compactions_performed > metrics.compactions_performed) =>
            \A c \in DOMAIN memory_store' :
                \A before \in {BeforeCompaction.memory_store[c]} :
                    ( /\ Len(before) > CompanyLimit
                      /\ Cardinality({before[i].entry_id : i \in 1..Len(before)})
                            = Len(before) ) =>
                        /\ Elements(memory_store'[c])
                              = FirstOccurrences(MustKeep(before) \o MostRecent(before))
                        /\ Elements(memory_store'[c])
                              = Elements(MustKeep(before)) \cup Elements(MostRecent(before))
                        /\ Len(memory_store'[c])
                              = Cardinality(Elements(memory_store'[c]))]_vars


\* the instant lookback_days before t
CutoffBefore(t, lookback_days) ==
    [sec |-> t.sec - lookback_days * SecondsPerDay, us |-> t.us]

\* the list the bank holds for a company, empty for a company it does not know
StoredFor(company_id) ==
    IF company_id \in DOMAIN memory_store THEN memory_store[company_id] ELSE <<>>

\* C28: a retrieval returns exactly the stored entries of the company whose
\* timestamp is not older than the cutoff (the time of the call minus the
\* lookback), each once, ordered newest first, and leaves the bank as it was;
\* this also holds for a list that compaction has rewritten.
C28_RetrieveReturnsWindowNewestFirst ==
    [][Called("retrieve") =>
         /\ memory_bank' = memory_bank
         /\ \A history \in {api'.last.history} :
            \A stored \in {StoredFor(api'.last.company_id)} :
            \A cutoff \in {CutoffBefore(now', api'.last.lookback_days)} :
                /\ Elements(history)
                      = {e \in Elements(stored) : TsLeq(cutoff, e.timestamp)}
                /\ Len(history)
                      = Cardinality({i \in 1..Len(stored) :
                                        TsLeq(cutoff, stored[i].timestamp)})
                /\ \A i \in 1..(Len(history) - 1) :
                       TsLeq(history[i + 1].timestamp, history[i].timestamp)]_vars

\* a retrieval from a compacted list that returns several entries but not all
\* of them, in another order than the list holds them
C28_Witness ==
    /\ api.last.op = "retrieve"
    /\ metrics.compactions_performed > 0
    /\ \A history \in {api.last.history} :
       \A stored \in {StoredFor(api.last.company_id)} :
           /\ Len(history) > 1
           /\ Len(history) < Len(stored)
           /\ \E i \in 1..Len(stored) :
                  /\ stored[i] \in Elements(history)
                  /\ \E j \in (i + 1)..Len(stored) :
                         /\ stored[j] \in Elements(history)
                         /\ ~TsLeq(stored[j].timestamp, stored[i].timestamp)


----------------------------------------------------------------------------
(* Properties of the continuous monitoring loop *)

LoopErrors == {"detect_raised", "config_raised"}

\* the step is a pass of the i-th loop through lines 137-163
CheckedBy(i) ==
    /\ Ready(loops[i])
    /\ ~loops[i].cancel_requested
    /\ loops'[i].sleeping > 0

\* the i-th loop exists and is at one of the positions
LoopAt(i, positions) == IF i <= Len(loops) THEN loops[i].pc \in positions ELSE FALSE

\* the i-th loop exists and a cancellation of it has not been delivered yet
CancelPending(i) == IF i <= Len(loops) THEN loops[i].cancel_requested ELSE FALSE

\* the i-th loop exists and is suspended in a back-off sleep that is pending
BackingOff(i) ==
    IF i <= Len(loops) THEN loops[i].pc = "backoff_sleep" /\ loops[i].sleeping > 0 ELSE FALSE

\* the i-th loop exists and its back-off sleep has ended
BackOffOver(i) ==
    IF i <= Len(loops) THEN loops[i].pc = "backoff_sleep" /\ loops[i].sleeping = 0 ELSE FALSE

\* the i-th loop exists and is suspended in a sleep that a check has started
InSleepStarted(i) ==
    IF i <= Len(loops) THEN loops[i].pc \in Sleeps /\ loops[i].sleeping > 0 ELSE FALSE

\* C29: a monitoring loop does not end because detect_regulatory_changes or
\* the read of the configuration raised: it is then suspended in the back-off
\* sleep of 300 seconds, which ends, and after which it checks again.  A loop
\* ends only in a step that delivers a cancellation, and a cancellation
\* delivered before the first check, in the polling sleep or in the back-off
\* sleep ends it.
C29_LoopSurvivesErrorsEndsOnCancel ==
    /\ [][\A i \in 1..Len(loops) :
            /\ (CheckedBy(i) /\ api'.last.outcome \in LoopErrors) =>
                   /\ loops'[i].pc = "backoff_sleep"
                   /\ loops'[i].sleeping = BackoffSeconds
            /\ (loops[i].pc # "ended" /\ loops'[i].pc = "ended") =>
                   loops[i].cancel_requested
            /\ (loops[i].cancel_requested /\ loops'[i] # loops[i]) =>
                   loops'[i].pc = "ended"]_vars
    /\ \A i \in 1..MaxStarts :
          /\ BackingOff(i) ~> (BackOffOver(i) \/ LoopAt(i, {"ended"}))
          /\ BackOffOver(i) ~> (InSleepStarted(i) \/ LoopAt(i, {"ended"}))
          /\ CancelPending(i) ~> LoopAt(i, {"ended"})

\* the last pass of a loop raised, and a cancellation delivered in the
\* back-off sleep that followed has ended the loop
C29_Witness ==
    /\ api.last.op = "detect"
    /\ api.last.outcome \in LoopErrors
    /\ loops[api.last.task].pc = "ended"
    /\ loops[api.last.task].outcome = "cancelled"


----------------------------------------------------------------------------
(* Properties of the session reaper loop *)

live_loops == session_manager.live_loops

\* C30: a _cleanup_loop task is still running after a scan of it has raised,
\* so that it scans again after its next sleep; the number of running
\* _cleanup_loop tasks goes down only in a stop() call, which cancels one.
C30_ReaperSurvivesScanErrors ==
    [][/\ Called("reaper_raised") =>
             /\ session_manager'.live_loops = live_loops
             /\ session_manager'.live_loops > 0
       /\ session_manager'.live_loops < live_loops => Called("stop")]_vars

\* right after a scan that raised, a scan has run to its end and ended a
\* session as timed out: the loop went on scanning
C30_Witness ==
    /\ api.last.op = "reaper"
    /\ api.last.previous = "reaper_raised"
    /\ \E id \in api.last.expired :
          /\ id \in DOMAIN session_manager.session_history
          /\ session_manager.session_history[id].status = "timeout"


----------------------------------------------------------------------------
(* Properties of the orchestrator's shutdown *)

\* the task that the shutdown() call in progress cancelled has ended, or the
\* call had none to cancel
AwaitedTaskStopped ==
    \/ agents.awaited_task = 0
    \/ loops[agents.awaited_task].pc = "ended"

\* the step runs the agents' shutdown() tasks
StagesShutDown == agents.shutdown = "awaiting_agents" /\ agents'.shutdown = "agents_ended"

\* the step is the one in which shutdown() ends
ShutdownEnds == agents.shutdown = "agents_ended" /\ agents'.shutdown # "agents_ended"

\* C31: shutdown cancels the task bound to monitoring_task before it waits;
\* the agents' shutdown() tasks run only once that task has ended, and an
\* agent loses its session in no other step; every agent's shutdown() is
\* run, an agent whose close() did not raise has no session afterwards,
\* whichever other agents raised, and shutdown then returns.
C31_ShutdownCancelsThenStopsStages ==
    [][/\ (agents.shutdown # "awaiting_task" /\ agents'.shutdown = "awaiting_task") =>
              /\ agents'.awaited_task = agents.monitoring_task
              /\ loops'[agents'.awaited_task].cancel_requested
       /\ (\E name \in StageNames :
               agents.sessions[name] # "none" /\ agents'.sessions[name] = "none") =>
              StagesShutDown
       /\ agents'.stage_shutdowns # agents.stage_shutdowns =>
              \/ StagesShutDown
              \/ NotShuttingDown(agents) /\ ~NotShuttingDown(agents')
       /\ StagesShutDown =>
              /\ AwaitedTaskStopped
              /\ \A name \in StageNames :
                    /\ agents'.stage_shutdowns[name] # "none"
                    /\ agents'.stage_shutdowns[name] # "raised" =>
                           agents'.sessions[name] = "none"
                    /\ agents.sessions[name] = "open" =>
                           agents'.stage_shutdowns[name] \in {"closed", "raised"}
       /\ ShutdownEnds => agents'.shutdown = "done"]_vars

\* a shutdown has waited for the monitoring task it cancelled and returned
\* after the close() of two agents raised and that of the two others did not
C31_Witness ==
    /\ agents.shutdown = "done"
    /\ agents.awaited_task # 0
    /\ loops[agents.awaited_task].outcome \in {"finished", "cancelled"}
    /\ Cardinality({name \in StageNames : agents.stage_shutdowns[name] = "raised"}) = 2
    /\ Cardinality({name \in StageNames : agents.stage_shutdowns[name] = "closed"}) = 2

\* C32: when a shutdown returns, every monitoring_loop task that
\* start_continuous_monitoring had created when the shutdown was called has ended.
C32_NoLoopRunsAfterShutdown ==
    [][ShutdownEnds =>
          \A i \in 1..agents'.loops_at_shutdown : loops'[i].pc = "ended"]_vars


----------------------------------------------------------------------------
(* Properties of the scores of an orchestrated run *)

\* C33: in a run whose analysis has returned, regulation_scores has a score
\* for exactly the regulations that the gather step reported with status
\* success, and overall_score is the floor of their mean.
C33_EverySucceededRegulationScored ==
    \A r \in 1..Len(run) :
        run[r].analyze = "ok" =>
            /\ DOMAIN run[r].regulation_scores = run[r].succeeded
            /\ \A n \in {Cardinality(run[r].succeeded)} :
                  n > 0 =>
                     /\ run[r].overall_score * n <= SumOf(run[r].regulation_scores)
                     /\ SumOf(run[r].regulation_scores) < (run[r].overall_score + 1) * n


\* C34: the records of the workflow history carry pairwise distinct
\* workflow identifiers, also when their runs started within one clock second.
C34_WorkflowIdsDistinct ==
    \A i \in 1..Len(workflow_history) :
        \A j \in (i + 1)..Len(workflow_history) :
            workflow_history[i].workflow_id # workflow_history[j].workflow_id


----------------------------------------------------------------------------
(* Properties of the bank's size and counters *)

\* C35: after a store_compliance_check call has returned, the bank holds at
\* most max_entries entries over all companies.
C35_BankBounded ==
    [][Called("store") =>
          TotalEntries(memory_store') <= memory_bank'.max_entries]_vars


----------------------------------------------------------------------------
(* Properties of ended sessions *)

\* the step is a call of update, record or end for the id
CalledOn(id) ==
    /\ \E op \in {"update", "record", "end"} : Called(op)
    /\ api'.last.session_id = id

\* C36: for a session that is in the history, an end_session call returns
\* false and changes nothing, and an update_session_context or
\* record_agent_interaction call leaves the context, metrics, status and
\* final_metrics of its record as they were.
C36_EndedRecordIsFinal ==
    [][\A id \in DOMAIN session_history :
          CalledOn(id) =>
              /\ Called("end") =>
                    /\ api'.last.result = "false"
                    /\ session_manager'.session_history = session_history
                    /\ session_manager'.active_sessions = active_sessions
              /\ \A before \in {session_history[id]} :
                 \A after \in {session_manager'.session_history[id]} :
                    /\ after.context = before.context
                    /\ after.metrics = before.metrics
                    /\ after.status = before.status
                    /\ after.final_metrics = before.final_metrics]_vars


\* the step ends the session: it leaves the active set for the history
Ends(id) ==
    /\ id \in DOMAIN active_sessions
    /\ id \notin DOMAIN session_manager'.active_sessions
    /\ id \in DOMAIN session_manager'.session_history

\* the call before this step read or wrote the session: it handed the
\* session's dict to its caller, or it changed the dict
ReadOrWritten(id) ==
    \/ /\ api.last.op \in {"get", "metrics"}
       /\ api.last.session_id = id
    \/ /\ api.last.op \in {"update", "record"}
       /\ api.last.session_id = id
       /\ api.last.result = "true"
    \/ /\ api.last.op = "workflow_sessions"
       /\ id \in Range(api.last.sessions)

\* the session was read or written within the timeout before the time t: by
\* the call before this step, which ran when the clock was at now or later
RecentlyTouched(id, t) ==
    /\ ReadOrWritten(id)
    /\ ~TimedOut(now, t, session_manager.session_timeout_minutes)

\* the status and ended_at of the session's history record stay as they are
EndingKept(id) ==
    /\ id \in DOMAIN session_manager'.session_history
    /\ id \notin DOMAIN session_manager'.active_sessions
    /\ session_manager'.session_history[id].status = session_history[id].status
    /\ session_manager'.session_history[id].ended_at = session_history[id].ended_at

\* C37: a session is ended once.  The step that ends it, an end_session call
\* or a reaper cycle, sets its status and ended_at; from then on no step
\* changes them, and a reaper cycle does not list the id; an end_session call
\* on an id that is not active returns false and changes nothing; and a
\* reaper cycle leaves active a session that a call has read or written
\* within the timeout before the cycle.
C37_EndedExactlyOnce ==
    [][\A id \in CreatedIds :
          /\ id \in DOMAIN session_history =>
                /\ EndingKept(id)
                /\ Scanned => id \notin api'.last.expired
          /\ (id \notin DOMAIN active_sessions
                 /\ Called("end") /\ api'.last.session_id = id) =>
                /\ api'.last.result = "false"
                /\ session_manager' = session_manager
          /\ (Ends(id) /\ Called("end")) =>
                /\ api'.last.session_id = id
                /\ api'.last.result = "true"
                /\ session_manager'.session_history[id].status \in EndStatuses
                /\ session_manager'.session_history[id].ended_at = now'
          /\ (Ends(id) /\ Scanned) =>
                /\ id \in api'.last.expired
                /\ session_manager'.session_history[id].status = "timeout"
                /\ session_manager'.session_history[id].ended_at = now'
          /\ (id \in DOMAIN active_sessions /\ Scanned /\ RecentlyTouched(id, now')) =>
                id \in DOMAIN session_manager'.active_sessions]_vars


----------------------------------------------------------------------------
(* Properties of the scores of a completed run *)

\* the runs that the workflow history records as completed
CompletedRuns == {r \in 1..Len(run) : "completed" \in StatusesOf(r)}

\* the entries of the bank that the run's store call built
StoredBy(r) ==
    {e \in AllEntries(memory_store) :
        run[r].store = "ok" /\ e.serial = run[r].stored_serial}

\* the risk_assessment dict of the run
RiskAssessmentOf(r) ==
    assess_risk(AnalysisResults(TRUE, run[r].overall_score, run[r].regulation_scores))

\* C38: for every run that has completed, the final_score of its workflow
\* record, the overall_compliance_score of its report's executive summary
\* and the compliance_score of its stored entry equal the overall_score of
\* its analysis, and the risk_score of the record, the overall_risk_score of
\* the summary and the risk_score of the entry equal the overall_risk_score
\* of its risk assessment.
C38_ScoresFlowThrough ==
    \A r \in CompletedRuns :
        /\ RecordsOf(r) # {}
        /\ \A i \in RecordsOf(r) :
              /\ workflow_history[i].status = "completed"
              /\ workflow_history[i].final_score = run[r].overall_score
              /\ workflow_history[i].risk_score = RiskAssessmentOf(r).overall_risk_score
        /\ run[r].final_report.has_summary
        /\ run[r].final_report.overall_compliance_score = run[r].overall_score
        /\ run[r].final_report.overall_risk_score = RiskAssessmentOf(r).overall_risk_score
        /\ \A e \in StoredBy(r) :
              /\ e.compliance_score = run[r].overall_score
              /\ e.risk_score = RiskAssessmentOf(r).overall_risk_score


----------------------------------------------------------------------------
(* Properties of the size of the active set *)

\* C39: the active set never holds more sessions than max_sessions.
C39_ActiveSessionsBounded ==
    Cardinality(DOMAIN active_sessions) <= session_manager.max_sessions


----------------------------------------------------------------------------
(* Properties of the bank's counters and audit trail *)

\* get_memory_metrics: audit_trail_entries equals total_stored, and
\* current_entries does not exceed it
CountersAgree(bank) ==
    /\ Len(bank.audit_trail) = bank.metrics.total_stored
    /\ TotalEntries(bank.memory_store) <= bank.metrics.total_stored

\* the audit record of this step's store call
AuditRecordOfCall(record) ==
    /\ record.action = "compliance_check_stored"
    /\ record.company_id = api'.last.company_id
    /\ record.entry_id = api'.last.entry_id
    /\ record.timestamp = now'

\* C40: every store call that returns adds one to total_stored and appends
\* its own record to the end of the audit trail, whether or not it compacts;
\* no other call changes either; so total_stored counts the store calls, the
\* audit trail holds one record per call in call order, and the
\* current_entries of the metrics never exceeds total_stored.
C40_CountersFollowStoreCalls ==
    [][/\ CountersAgree(memory_bank)
       /\ CountersAgree(memory_bank')
       /\ IF Called("store")
          THEN /\ metrics'.total_stored = metrics.total_stored + 1
               /\ Len(memory_bank'.audit_trail) = Len(audit_trail) + 1
               /\ SubSeq(memory_bank'.audit_trail, 1, Len(audit_trail)) = audit_trail
               /\ AuditRecordOfCall(memory_bank'.audit_trail[Len(audit_trail) + 1])
          ELSE /\ metrics'.total_stored = metrics.total_stored
               /\ memory_bank'.audit_trail = audit_trail]_vars

\* a store call has returned after a compaction that removed entries
C40_Witness ==
    /\ api.last.op = "store"
    /\ metrics.last_compaction = now
    /\ TotalEntries(memory_store) < metrics.total_stored
    /\ Len(audit_trail) = metrics.total_stored

====
